---- MODULE Spec2Model ----
(***************************************************************************)
(* Storage/streaming core of Irmine/Worlds.                                *)
(*                                                                         *)
(* Part 1: the chunk provider (providers.ChunkProvider, second revision    *)
(* in src/providers/base.go, lines 110-222) together with the Anvil        *)
(* resolution loop (src/manager.go, lines 124-247).                        *)
(* Part 2: the region container (src/unnamed/part_006, package io).        *)
(***************************************************************************)
EXTENDS Integers, Sequences, FiniteSets, TLC

---------------------------------------------------------------------------
(* Bounds of the model.                                                    *)

\* Number of LoadChunk calls issued by the callers of the provider.
NumLoads == 2
\* Capacity of the request channel.  The program uses 4096
\* (src/providers/base.go:150); the model keeps the channel bounded but small
\* so that a full channel is reachable.
QueueCap == 1
\* Number of GetChunk / UnloadChunk / SetChunk calls made by other clients.
MaxCalls == 1
\* Number of WriteChunkData calls made on a region container.
MaxWrites == 2

Loads == 1..NumLoads

---------------------------------------------------------------------------
(* Coordinates and indices.                                                *)

\* Chunk coordinates used by the callers: two columns lying in two different
\* regions, one of them with a negative coordinate.
Coords == {<<-1, 0>>, <<32, 33>>}

\* GetChunkIndex packs (x, z) into one map key, ((x & 0xffffffff) << 32) |
\* (z & 0xffffffff).  The packing is injective on int32 pairs; the pair
\* itself is used as the key.
GetChunkIndex(x, z) == <<x, z>>

\* request.x>>5, request.z>>5: arithmetic shift, i.e. floor division by 32.
RegionOf(k) == <<k[1] \div 32, k[2] \div 32>>

---------------------------------------------------------------------------
(* Chunks.  A chunk value carries its identity, the coordinate it was made *)
(* for and how it came to be.  Every allocation yields a new object: the   *)
(* object made while resolving request c is identified by c, the object    *)
(* passed to the n-th client call by n.                                    *)

Nil == [id |-> 0, x |-> 0, z |-> 0, src |-> "nil"]

NewChunk(n, k, how) == [id |-> n, x |-> k[1], z |-> k[2], src |-> how]

\* What a region file holds for a coordinate:
\*   "absent"  the slot was never generated (location word is zero);
\*   "good"    a record that decodes into a chunk;
\*   "corrupt" a record whose payload does not decode (ReadIntoCompound
\*             returns nil);
\*   "badlen"  a record whose stored length word is negative.
SlotKinds == {"absent", "good", "corrupt", "badlen"}

\* The region files the provider starts on: the file of the first region
\* holds any kind of record, the file of the second region does not exist yet.
DiskStates == {d \in [Coords -> SlotKinds] : d[<<32, 33>>] = "absent"}

VARIABLES
    chunks,     \* ChunkProvider.chunks: map index -> *Chunk
    requests,   \* ChunkProvider.requests: the buffered channel
    pc,         \* per LoadChunk call: where the call / its request is
    arg,        \* per LoadChunk call: the coordinate asked for
    got,        \* per LoadChunk call: the chunks its callback was run with
    res,        \* per LoadChunk call: what Anvil.load did for its request
    regions,    \* Anvil.regions: map region index -> *io.Region
    disk,       \* what the region files hold, per coordinate
    calls,      \* client calls made besides LoadChunk
    last,       \* the client call that produced the current state
    crashed,    \* the process died of a runtime panic
    Header,     \* io.Region.Header: Locations and Timestamps
    File,       \* io.Region.File: contents and position of the open file
    writes,     \* WriteChunkData calls made on the region
    lastWrite,  \* the arguments of the latest WriteChunkData call
    lastRead,   \* the result of the latest GetChunkData call
    written,    \* location indices WriteChunkData was called for
    isNew,      \* the region file was empty when it was opened
    compacts,   \* CleanGarbage calls made on the region
    center,            \* Loader.ChunkX, Loader.ChunkZ
    loadedChunks,      \* Loader.loadedChunks: the coordinates in use
    loadChunkQueue,    \* Loader.loadChunkQueue
    unloadChunkQueue,  \* Loader.unloadChunkQueue
    inflight,          \* per coordinate: load callbacks the provider still owes
    lsteps,            \* calls made on the loader
    llast,             \* the loader call that produced the current state
    trace,             \* what that call did, in order: hooks and provider calls
    subChunk,   \* one SubChunk: BlockIds, BlockData, BlockLight, SkyLight
    ssteps,     \* calls made on the SubChunk
    slast,      \* the SubChunk call that produced the current state
    subChunks,  \* Chunk.subChunks: map index -> *SubChunk
    HeightMap,  \* Chunk.HeightMap
    csteps,     \* calls made on the Chunk
    clast,      \* the Chunk call that produced the current state
    blockManager,  \* Dimension.blockManager: the registered block ids
    chunkData,     \* per resident chunk: its subChunks and its blockNBT map
    nbtStored,     \* per block position: the compound last stored by SetBlockAt
    dsteps,        \* calls made on the Dimension
    dlast,         \* the Dimension call that produced the current state
    saved,      \* per Region of the provider: calls of Region.Save made on it
    closed,     \* per Region of the provider: calls of File.Close made on it
    walks,      \* the regions.Range walks of Anvil.Save and Anvil.Close
    alast,      \* the Anvil.Save / Anvil.Close call that returned last
    segments,   \* the SubChunk objects made by NewSubChunk for a shared chunk
    stored,     \* the subChunks map of the shared chunk: index -> object
    gpc,        \* per goroutine on the shared chunk: where its call is
    gcall,      \* per goroutine: its call and the SubChunk object it got
    gcalls,     \* per goroutine: calls it has made
    EntityRuntimeId,  \* the package variable EntityRuntimeId
    entities,         \* Dimension.entities: runtime id -> entity
    chunkEntities,    \* per resident chunk: Chunk.entities, runtime id -> entity
    epc,              \* per entity: where its AddEntity call / callback is
    eself,            \* per entity: its position, its runtime id, the value read by ++
    removes,          \* RemoveEntity calls made
    elast,            \* the RemoveEntity call made last
    scan        \* the downward loop over the segment indices that is running

\* The state of the provider and the state of one region container.
pvars == <<chunks, requests, pc, arg, got, res, regions, disk, calls, last>>
rvars == <<Header, File, writes, lastWrite, lastRead, written, isNew, compacts>>

\* The state of one chunk loader.
lvars == <<center, loadedChunks, loadChunkQueue, unloadChunkQueue, inflight, lsteps, llast,
           trace>>

\* The state of one segment and the state of one chunk.
svars == <<subChunk, ssteps, slast>>
cvars == <<subChunks, HeightMap, csteps, clast>>

\* The state of one dimension: its block manager and the contents of the
\* chunks of its provider.
dvars == <<blockManager, chunkData, nbtStored, dsteps, dlast>>

\* The Save and Close calls on the provider and what they did to its regions.
avars == <<saved, closed, walks, alast>>

\* The state of one chunk shared by goroutines.
gvars == <<segments, stored, gpc, gcall, gcalls>>

\* The state of the components added last.
\* The entities of one dimension.
evars == <<EntityRuntimeId, entities, chunkEntities, epc, eself, removes, elast>>

later == <<gvars, evars, scan>>

extras == <<dvars, avars, later>>

\* The state of the components an action of the provider or of the region
\* leaves alone.
others == <<lvars, svars, cvars, extras>>

vars == <<pvars, crashed, rvars, others>>

NoCall == [op |-> "none", k |-> <<0, 0>>, chunk |-> Nil, ok |-> FALSE]

\* A segment just made by NewSubChunk.
SegmentInit ==
    /\ subChunk = [BlockIds |-> [len |-> 4096, nz |-> <<>>],
                   BlockData |-> [len |-> 2048, nz |-> <<>>],
                   BlockLight |-> [len |-> 2048, nz |-> <<>>],
                   SkyLight |-> [len |-> 2048, nz |-> <<>>]]
    /\ ssteps = 0
    /\ slast = [op |-> "none", x |-> 0, y |-> 0, z |-> 0, v |-> 0]

\* A chunk just made by New.
ChunkInit ==
    /\ subChunks = <<>>
    /\ HeightMap = [i \in 0..255 |-> 0]
    /\ csteps = 0
    /\ clast = [op |-> "none", x |-> 0, y |-> 0, z |-> 0, v |-> 0]

\* A block without compound, and the result of a call that returns no block.
NoBlock == [id |-> 0, data |-> 0, nbt |-> "nil"]

\* A dimension with an empty block manager over a provider without chunks.
DimensionInit ==
    /\ blockManager = {}
    /\ chunkData = <<>>
    /\ nbtStored = <<>>
    /\ dsteps = 0
    /\ dlast = [op |-> "none", v |-> <<0, 0, 0>>, block |-> NoBlock, err |-> "nil"]

\* No Save or Close call was made on the provider.
AnvilInit ==
    /\ saved = <<>>
    /\ closed = <<>>
    /\ walks = <<>>
    /\ alast = [op |-> "none", async |-> FALSE, open |-> {}]

\* The goroutines that share one chunk, and the call none of them is in.
NumGoroutines == 2
Goroutines == 1..NumGoroutines
NoChunkCall == [op |-> "none", p |-> <<0, 0, 0>>, id |-> 0, sub |-> 0]

\* A new chunk shared by goroutines: no call was made on it.
SharedChunkInit ==
    /\ segments = <<>>
    /\ stored = <<>>
    /\ gpc = [t \in Goroutines |-> "idle"]
    /\ gcall = [t \in Goroutines |-> NoChunkCall]
    /\ gcalls = [t \in Goroutines |-> 0]

\* The entities added to the dimension, the positions (X, Z) they are
\* added at, and the chunk of a position: int32(math.Floor(X)) >> 4.
NumEntities == 2
Entities == 1..NumEntities
EntityPositions == {<<0, 0>>, <<20, 5>>, <<-1, 0>>}
ChunkAt(p) == <<p[1] \div 16, p[2] \div 16>>

\* A dimension without entities whose provider has the chunks of the
\* positions in its cache.
EntitiesInit ==
    /\ EntityRuntimeId = 0
    /\ entities = <<>>
    /\ chunkEntities = [k \in {ChunkAt(p) : p \in EntityPositions} |-> <<>>]
    /\ epc = [e \in Entities |-> "idle"]
    /\ eself = [e \in Entities |-> [pos |-> <<0, 0>>, rid |-> 0, read |-> 0]]
    /\ removes = 0
    /\ elast = [op |-> "none", id |-> 0, e |-> 0, added |-> FALSE]

\* No loop over the segment indices is running.
NoScan == [op |-> "none", y |-> 0, running |-> FALSE]

ExtrasInit == DimensionInit /\ AnvilInit /\ SharedChunkInit /\ EntitiesInit /\ scan = NoScan

\* A loader just made by NewLoader at the chunk (0, 0).
LoaderInit ==
    /\ center = <<0, 0>>
    /\ loadedChunks = {}
    /\ loadChunkQueue = {}
    /\ unloadChunkQueue = {}
    /\ inflight = <<>>
    /\ lsteps = 0
    /\ llast = [op |-> "none", k |-> <<0, 0>>, r |-> 0, was |-> "none"]
    /\ trace = <<>>

ProviderInit ==
    /\ chunks = <<>>
    /\ requests = <<>>
    /\ pc = [c \in Loads |-> "idle"]
    /\ arg = [c \in Loads |-> <<0, 0>>]
    /\ got = [c \in Loads |-> <<>>]
    /\ res = [c \in Loads |-> "none"]
    /\ regions = <<>>
    /\ disk \in DiskStates
    /\ calls = 0
    /\ last = NoCall

---------------------------------------------------------------------------
(* ChunkProvider (src/providers/base.go, second revision).                 *)

\* IsChunkLoaded: _, ok = provider.chunks[index]
IsChunkLoaded(k) == GetChunkIndex(k[1], k[2]) \in DOMAIN chunks

\* GetChunk: chunk, ok = provider.chunks[index]; a missing key yields the
\* zero value (nil) and false.
GetChunk_AlwaysFound(k) ==
    LET i == GetChunkIndex(k[1], k[2])
    IN <<IF i \in DOMAIN chunks THEN chunks[i] ELSE Nil, TRUE>>

GetChunk(k) ==
    LET i == GetChunkIndex(k[1], k[2])
    IN IF i \in DOMAIN chunks THEN <<chunks[i], TRUE>> ELSE <<Nil, FALSE>>

\* The map after provider.chunks[index] = chunk.
Stored(k, chunk) ==
    LET i == GetChunkIndex(k[1], k[2])
    IN [j \in DOMAIN chunks \cup {i} |-> IF j = i THEN chunk ELSE chunks[j]]

\* The map after delete(provider.chunks, index).
Deleted_All(k) == [j \in {} |-> Nil]

Deleted(k) ==
    LET i == GetChunkIndex(k[1], k[2])
    IN [j \in DOMAIN chunks \ {i} |-> chunks[j]]

\* LoadChunk, up to and including the cache check: a hit runs the callback
\* on the caller's stack and returns; a miss goes on to the channel send.
\* (Calls are numbered in the order in which they start.)
LoadChunk_NoCacheCheck(c, k) ==
    /\ ~crashed
    /\ pc[c] = "idle"
    /\ \A d \in Loads : d < c => pc[d] # "idle"
    /\ arg' = [arg EXCEPT ![c] = k]
    /\ got' = got
    /\ pc' = [pc EXCEPT ![c] = "send"]
    /\ last' = NoCall
    /\ UNCHANGED <<chunks, requests, res, regions, disk, calls, crashed, rvars, others>>

LoadChunk(c, k) ==
    /\ ~crashed
    /\ pc[c] = "idle"
    /\ \A d \in Loads : d < c => pc[d] # "idle"
    /\ arg' = [arg EXCEPT ![c] = k]
    /\ IF GetChunk(k)[2]
       THEN /\ got' = [got EXCEPT ![c] = Append(@, GetChunk(k)[1])]
            /\ pc' = [pc EXCEPT ![c] = "hit"]
       ELSE /\ got' = got
            /\ pc' = [pc EXCEPT ![c] = "send"]
    /\ last' = NoCall
    /\ UNCHANGED <<chunks, requests, res, regions, disk, calls, crashed, rvars, others>>

\* provider.requests <- ChunkRequest{function, x, z}: the send blocks while
\* the channel holds QueueCap requests.
LoadChunkSend(c) ==
    /\ ~crashed
    /\ pc[c] = "send"
    /\ Len(requests) < QueueCap
    /\ requests' = Append(requests, c)
    /\ pc' = [pc EXCEPT ![c] = "queued"]
    /\ last' = NoCall
    /\ UNCHANGED <<chunks, arg, got, res, regions, disk, calls, crashed, rvars, others>>

\* GetChunk called by a client: the result is recorded in last.
Get(k) ==
    /\ ~crashed
    /\ calls < MaxCalls
    /\ calls' = calls + 1
    /\ last' = [op |-> "Get", k |-> k, chunk |-> GetChunk(k)[1], ok |-> GetChunk(k)[2]]
    /\ UNCHANGED <<chunks, requests, pc, arg, got, res, regions, disk, crashed, rvars, others>>

\* UnloadChunk: delete(provider.chunks, index) under the write lock.  last
\* records what the cache held for the coordinate before the call.
UnloadChunk(k) ==
    /\ ~crashed
    /\ calls < MaxCalls
    /\ calls' = calls + 1
    /\ chunks' = Deleted(k)
    /\ last' = [op |-> "Unload", k |-> k, chunk |-> GetChunk(k)[1], ok |-> GetChunk(k)[2]]
    /\ UNCHANGED <<requests, pc, arg, got, res, regions, disk, crashed, rvars, others>>

\* SetChunk called by a client with a chunk of its own.
SetChunk(k) ==
    /\ ~crashed
    /\ calls < MaxCalls
    /\ calls' = calls + 1
    /\ chunks' = Stored(k, NewChunk(calls + 1, k, "set"))
    /\ last' = [op |-> "Set", k |-> k, chunk |-> NewChunk(calls + 1, k, "set"), ok |-> TRUE]
    /\ UNCHANGED <<requests, pc, arg, got, res, regions, disk, crashed, rvars, others>>

\* completeRequest: the callback runs only if GetChunk finds the chunk.
completeRequest(c) ==
    IF GetChunk(arg[c])[2]
    THEN got' = [got EXCEPT ![c] = Append(@, GetChunk(arg[c])[1])]
    ELSE got' = got

\* GenerateChunk: provider.generator.GenerateNewChunk(x, z), then SetChunk.
GenerateChunk(c, k) ==
    chunks' = Stored(k, NewChunk(c, k, "generated"))

---------------------------------------------------------------------------
(* Anvil (src/manager.go, lines 124-247).                                  *)

\* IsRegionLoaded: _, ok = provider.regions.Load(index)
IsRegionLoaded(r) == GetChunkIndex(r[1], r[2]) \in DOMAIN regions

\* The table after provider.regions.Store(index, region).
RegionStored(r, region) ==
    LET i == GetChunkIndex(r[1], r[2])
    IN [j \in DOMAIN regions \cup {i} |-> IF j = i THEN region ELSE regions[j]]

\* io.OpenRegion (src/unnamed/part_006:60-64) as the provider sees it: a new
\* Region object whose header is loaded from the file.  When os.OpenFile
\* fails the Region holds a nil file, LoadHeader reads nothing and every
\* location stays zero.
OpenedRegion(n, fileOk) == [id |-> n, file |-> fileOk]

\* region.HasChunkGenerated(x, z) on a region of the table.
RegionHasChunk(region, k) == region.file /\ disk[k] # "absent"

\* Process, one iteration up to the residency check: receive a request; if
\* the chunk is loaded go on to completeRequest, else start a goroutine.
Process ==
    /\ ~crashed
    /\ \A c \in Loads : pc[c] # "pcomplete"
    /\ requests # <<>>
    /\ LET c == Head(requests)
       IN pc' = [pc EXCEPT ![c] = IF IsChunkLoaded(arg[c]) THEN "pcomplete"
                                                           ELSE "check"]
    /\ requests' = Tail(requests)
    /\ last' = NoCall
    /\ UNCHANGED <<chunks, arg, got, res, regions, disk, calls, crashed, rvars, others>>

\* Process, the completeRequest call of the resident branch.
ProcessComplete(c) ==
    /\ ~crashed
    /\ pc[c] = "pcomplete"
    /\ completeRequest(c)
    /\ pc' = [pc EXCEPT ![c] = "done"]
    /\ last' = NoCall
    /\ UNCHANGED <<chunks, requests, arg, res, regions, disk, calls, crashed, rvars, others>>

\* The goroutine of a request: if provider.IsRegionLoaded(regionX, regionZ).
WorkerCheck(c) ==
    /\ ~crashed
    /\ pc[c] = "check"
    /\ pc' = [pc EXCEPT ![c] = IF IsRegionLoaded(RegionOf(arg[c])) THEN "load"
                                                                   ELSE "open"]
    /\ last' = NoCall
    /\ UNCHANGED <<chunks, requests, arg, got, res, regions, disk, calls, crashed,
                   rvars, others>>

\* The goroutine of a request: os.Stat / os.Create, then provider.OpenRegion,
\* which stores a newly opened Region in the table whatever io.OpenRegion
\* returned as its error.
WorkerOpen(c) ==
    /\ ~crashed
    /\ pc[c] = "open"
    /\ \E fileOk \in BOOLEAN :
          regions' = RegionStored(RegionOf(arg[c]), OpenedRegion(c, fileOk))
    /\ pc' = [pc EXCEPT ![c] = "load"]
    /\ last' = NoCall
    /\ UNCHANGED <<chunks, requests, arg, got, res, disk, calls, crashed, rvars, others>>

\* Anvil.load up to the chunk being stored: GetRegion, HasChunkGenerated,
\* GetChunkData, decode, then GenerateChunk or SetChunk.
\*  - GetRegion asserts region.(*io.Region) on the value Load returned: with
\*    no entry in the table the assertion panics;
\*  - GetChunkData makes a slice of the stored length: a negative length
\*    panics.
load(c) ==
    LET k == arg[c]
        i == GetChunkIndex(RegionOf(k)[1], RegionOf(k)[2])
    IN IF i \notin DOMAIN regions
          \/ (RegionHasChunk(regions[i], k) /\ disk[k] = "badlen")
       THEN /\ crashed' = TRUE
            /\ res' = [res EXCEPT ![c] = "panic"]
            /\ UNCHANGED <<chunks, pc>>
       ELSE /\ crashed' = crashed
            /\ pc' = [pc EXCEPT ![c] = "complete"]
            /\ IF RegionHasChunk(regions[i], k) /\ disk[k] = "good"
               THEN /\ chunks' = Stored(k, NewChunk(c, k, "decoded"))
                    /\ res' = [res EXCEPT ![c] = "decoded"]
               ELSE /\ GenerateChunk(c, k)
                    /\ res' = [res EXCEPT ![c] = "generated"]

WorkerLoad(c) ==
    /\ ~crashed
    /\ pc[c] = "load"
    /\ load(c)
    /\ last' = NoCall
    /\ UNCHANGED <<requests, arg, got, regions, disk, calls, rvars, others>>

\* Anvil.load, the closing completeRequest call.
WorkerComplete(c) ==
    /\ ~crashed
    /\ pc[c] = "complete"
    /\ completeRequest(c)
    /\ pc' = [pc EXCEPT ![c] = "done"]
    /\ last' = NoCall
    /\ UNCHANGED <<chunks, requests, arg, res, regions, disk, calls, crashed, rvars, others>>

\* Read-or-generate operations performed for a coordinate so far.
ops(k) == Cardinality({c \in Loads : arg[c] = k /\ res[c] \in {"generated", "decoded"}})

---------------------------------------------------------------------------
(* Byte strings.  A byte string is its length together with its non-zero   *)
(* bytes, by 0-based offset; every other byte is zero.                     *)

NoBytes == [i \in {} |-> 0]

Zeros(n) == [len |-> n, nz |-> NoBytes]

FromSeq(s) ==
    [len |-> Len(s),
     nz |-> [i \in {j \in 0..(Len(s) - 1) : s[j + 1] # 0} |-> s[i + 1]]]

At(b, i) == IF i \in DOMAIN b.nz THEN b.nz[i] ELSE 0

Concat(a, b) ==
    [len |-> a.len + b.len,
     nz |-> [i \in DOMAIN a.nz \cup {j + a.len : j \in DOMAIN b.nz} |->
                IF i < a.len THEN a.nz[i] ELSE b.nz[i - a.len]]]

\* binary.Write(buffer, binary.BigEndian, v) for an int32 v: four bytes of
\* the two's complement of v, most significant first.
BE32(v) ==
    FromSeq(<<(v \div 16777216) % 256, (v \div 65536) % 256, (v \div 256) % 256,
              v % 256>>)

\* binary.Read(buffer, binary.BigEndian, &v) for an int32 v, on the four
\* bytes of b at offset i.
Int32At(b, i) ==
    LET b0 == At(b, i)
    IN (IF b0 >= 128 THEN b0 - 256 ELSE b0) * 16777216
       + At(b, i + 1) * 65536 + At(b, i + 2) * 256 + At(b, i + 3)

\* File.ReadAt(buf, off) with len(buf) = n: the bytes of the file from off,
\* as far as the file goes; the rest of the buffer keeps its zeros.  A
\* negative offset is an error and reads nothing.
ReadAt(f, off, n) ==
    IF off < 0
    THEN Zeros(n)
    ELSE [len |-> n,
          nz |-> [i \in {q - off : q \in {p \in DOMAIN f.nz : p >= off /\ p < off + n}}
                     |-> f.nz[i + off]]]

\* File.WriteAt(b, off): overwrites, and extends the file when the bytes
\* reach beyond its end (a gap reads as zeros).
WriteAt(f, off, b) ==
    IF b.len = 0 \/ off < 0
    THEN f
    ELSE [f EXCEPT
            !.len = IF off + b.len > f.len THEN off + b.len ELSE f.len,
            !.nz = [i \in {p \in DOMAIN f.nz : p < off \/ p >= off + b.len}
                          \cup {j + off : j \in DOMAIN b.nz} |->
                       IF i >= off /\ i < off + b.len THEN b.nz[i - off]
                                                      ELSE f.nz[i]]]

\* File.Read(buf) with len(buf) = n: reads at the file position and moves it.
FileRead(f, n) ==
    LET m == IF f.len - f.pos < n THEN f.len - f.pos ELSE n
    IN [buf |-> ReadAt(f, f.pos, n), file |-> [f EXCEPT !.pos = f.pos + m]]

---------------------------------------------------------------------------
(* The region container (src/unnamed/part_006).                            *)

HeaderSize == 8192
SectorSize == 4096
LengthOffset == 4
\* RegionHeader holds [1024]*Location and [1024]int32.
NumLocations == 1024

\* int32(math.Ceil(float64(a) / s)) for s > 0.
Ceil(a, s) == -((-a) \div s)

\* int32(v << 12) for an int32 v.
Shl12(v) ==
    LET q == v % 1048576
    IN IF q >= 524288 THEN (q - 1048576) * 4096 ELSE q * 4096

GetChunkLocationIndex(x, z) == (x % 32) + (z % 32) * 32

\* LoadHeader: the two tables read from the first 8192 bytes of the file.
LoadHeader(f) ==
    LET rd == FileRead(f, 8192)
        buff == rd.buf
    IN [header |->
          [Locations |->
              [i \in 0..(NumLocations - 1) |->
                  LET o == Int32At(buff, i * LengthOffset)
                  IN [Offset |-> Shl12(o \div 256), SectorLength |-> o % 256]],
           Timestamps |->
              [i \in 0..(NumLocations - 1) |->
                  Int32At(buff, HeaderSize \div 2 + i * LengthOffset)]],
        file |-> rd.file]

NoWrite == [op |-> "none", x |-> 0, z |-> 0, tag |-> 0, data |-> Zeros(0)]

\* OpenRegion(path) on a file with the given contents: NewRegion, LoadHeader.
OpenRegion(contents) ==
    LET opened == LoadHeader([len |-> contents.len, nz |-> contents.nz, pos |-> 0])
    IN /\ Header = opened.header
       /\ File = opened.file
       /\ writes = 0
       /\ lastWrite = NoWrite
       /\ lastRead = NoWrite
       /\ written = {}
       /\ isNew = (contents.len = 0)
       /\ compacts = 0

\* A payload of n bytes: first byte a, last byte b, zeros between.
Payload(n, a, b) == [len |-> n, nz |-> [i \in {0, n - 1} |-> IF i = 0 THEN a ELSE b]]

\* A file as os.Create leaves it.
EmptyFile == Zeros(0)

\* A well-formed region file made by another writer: the chunk (1, 0) is
\* stored in one sector right after the header (location word 2<<8 | 1,
\* timestamp 70000), as a zlib record of 100 payload bytes.
ExistingFile ==
    WriteAt(WriteAt(WriteAt(Zeros(HeaderSize + SectorSize), 4, BE32(513)),
                    HeaderSize \div 2 + 4, BE32(70000)),
            HeaderSize,
            Concat(BE32(101), Concat(FromSeq(<<2>>), Payload(100, 5, 6))))

GetLocation(x, z) == Header.Locations[GetChunkLocationIndex(x, z)]

\* Location.IsExistent
IsExistent(location) == location.Offset >= HeaderSize /\ location.SectorLength # 0

HasChunkGenerated(x, z) == IsExistent(GetLocation(x, z))

\* WriteChunkData(x, z, data, compressionType), at Unix time now.
WriteChunkData(x, z, data, compressionType, now) ==
    LET loc == GetLocation(x, z)
        buff == ReadAt(File, loc.Offset, LengthOffset)
        oldLength == Int32At(buff, 0) + 4
        newLength == data.len + 5
        oldLengthPadded == Ceil(oldLength, SectorSize) * SectorSize
        sectorLength == Ceil(newLength, SectorSize)
        newLengthPadded == sectorLength
        padding == IF newLengthPadded - newLength > 0
                   THEN Zeros(newLengthPadded - newLength)
                   ELSE Zeros(0)
        offset == IF newLengthPadded > oldLengthPadded THEN File.len ELSE loc.Offset
        buffer == Concat(BE32(newLength),
                         Concat(FromSeq(<<compressionType>>), Concat(data, padding)))
        idx == GetChunkLocationIndex(x, z)
    IN /\ Header' = [Header EXCEPT
                        !.Locations[idx] = [Offset |-> offset,
                                            SectorLength |-> sectorLength],
                        !.Timestamps[idx] = now]
       /\ File' = WriteAt(File, offset, buffer)

\* GetChunkData(x, z): <<compression type, chunk data, panicked>>.  make
\* panics on a negative length.
GetChunkData(x, z) ==
    LET loc == GetLocation(x, z)
        buff == ReadAt(File, loc.Offset, 5)
        length == Int32At(buff, 0)
    IN IF loc.Offset = 0 THEN <<0, Zeros(0), FALSE>>
       ELSE IF length < 0 THEN <<At(buff, 4), Zeros(0), TRUE>>
       ELSE <<At(buff, 4), ReadAt(File, loc.Offset + 5, length), FALSE>>

\* Chunk coordinates, payloads and compression tags the clients of the
\* region use: payloads of one byte, of one sector less the 5-byte prefix,
\* and of more than two sectors.
RCoords == {<<0, 0>>, <<1, 0>>, <<-1, 33>>}
Payloads == {Payload(1, 7, 7), Payload(4091, 1, 2), Payload(9000, 3, 4)}
Tags == {1, 2}

\* A client writes a chunk record.  The clock reads 70001, 70002, ...
Write(x, z, data, tag) ==
    /\ ~crashed
    /\ writes < MaxWrites
    /\ writes' = writes + 1
    /\ WriteChunkData(x, z, data, tag, 70001 + writes)
    /\ lastWrite' = [op |-> "Write", x |-> x, z |-> z, tag |-> tag, data |-> data]
    /\ lastRead' = NoWrite
    /\ written' = written \cup {GetChunkLocationIndex(x, z)}
    /\ UNCHANGED <<others, pvars, crashed, isNew, compacts>>

\* A client reads a chunk record.
Read(x, z) ==
    /\ ~crashed
    /\ lastRead' = [op |-> "Read", x |-> x, z |-> z, tag |-> GetChunkData(x, z)[1],
                    data |-> GetChunkData(x, z)[2]]
    /\ crashed' = GetChunkData(x, z)[3]
    /\ UNCHANGED <<others, pvars, Header, File, writes, lastWrite, written, isNew, compacts>>

---------------------------------------------------------------------------
(* Specifications.                                                         *)

\* The callers and the resolution pipeline.
LoadNext ==
    \/ \E c \in Loads, k \in Coords : LoadChunk(c, k)
    \/ \E c \in Loads : LoadChunkSend(c)
    \/ Process
    \/ \E c \in Loads : ProcessComplete(c)
    \/ \E c \in Loads : WorkerCheck(c)
    \/ \E c \in Loads : WorkerOpen(c)
    \/ \E c \in Loads : WorkerLoad(c)
    \/ \E c \in Loads : WorkerComplete(c)

\* The same with clients that also call GetChunk, UnloadChunk and SetChunk.
Next ==
    \/ LoadNext
    \/ \E k \in Coords : Get(k)
    \/ \E k \in Coords : UnloadChunk(k)
    \/ \E k \in Coords : SetChunk(k)

\* No region container is under study: the provider's own regions are in
\* its table.
NoRegion ==
    /\ Header = [Locations |-> <<>>, Timestamps |-> <<>>]
    /\ File = [len |-> 0, nz |-> NoBytes, pos |-> 0]
    /\ writes = 0
    /\ lastWrite = NoWrite
    /\ lastRead = NoWrite
    /\ written = {}
    /\ isNew = TRUE
    /\ compacts = 0

\* A provider just made by NewAnvil.
Init ==
    ProviderInit /\ crashed = FALSE /\ NoRegion /\ LoaderInit /\ SegmentInit /\ ChunkInit /\ ExtrasInit

Spec == Init /\ [][Next]_vars

\* Loads only: no client unloads or replaces a chunk.
LoadSpec == Init /\ [][LoadNext]_vars

\* One region container, opened on a new or on an existing file, and the
\* clients writing and reading chunk records.
RegionInit ==
    /\ ProviderInit
    /\ disk = [k \in Coords |-> "absent"]
    /\ crashed = FALSE
    /\ \E contents \in {EmptyFile, ExistingFile} : OpenRegion(contents)
    /\ LoaderInit /\ SegmentInit /\ ChunkInit /\ ExtrasInit

RegionNext ==
    \/ \E k \in RCoords, data \in Payloads, tag \in Tags : Write(k[1], k[2], data, tag)
    \/ \E k \in RCoords : Read(k[1], k[2])

RegionSpec == RegionInit /\ [][RegionNext]_vars

---------------------------------------------------------------------------
(* Claims about the chunk provider.                                        *)

\* The LoadChunk calls whose request went into the channel.
Enqueued(c) == pc[c] \in {"queued", "pcomplete", "check", "open", "load", "complete", "done"}

\* C1: when two or more Load calls for one coordinate are issued while it is
\* not resident and before its resolution has completed, the provider
\* performs exactly one read-or-generate operation for that coordinate.
\* (Stated for LoadSpec, where nothing unloads a chunk: every operation
\* after the first is a duplicate.)
C1_OneResolutionPerCoordinate == \A k \in Coords : ops(k) <= 1

\* C2: two Load calls for the same absent coordinate, both pending before
\* its resolution completes, have their callbacks run with the same chunk
\* instance, and that instance is the one resident after resolution.
\* (Stated for LoadSpec: two enqueued calls for one coordinate were both
\* pending before it became resident.)
C2_SameInstanceForBoth ==
    \A c, d \in Loads :
        (c # d /\ Enqueued(c) /\ Enqueued(d) /\ arg[c] = arg[d]
           /\ got[c] # <<>> /\ got[d] # <<>>)
        => /\ got[c][1] = got[d][1]
           /\ (pc[c] = "done" /\ pc[d] = "done") => GetChunk(arg[c]) = <<got[c][1], TRUE>>

\* C3: every Load that enqueues a request has its callback run exactly once
\* with a chunk for its coordinate, whatever Unload and SetChunk calls run
\* concurrently.  (As an invariant: a request whose resolution is over had
\* its callback run exactly once.)
C3_EnqueuedLoadCompletes ==
    \A c \in Loads :
        pc[c] = "done" => /\ Len(got[c]) = 1
                          /\ <<got[c][1].x, got[c][1].z>> = arg[c]

\* The requests in the channel that belong to call c.
InChannel(c) == {i \in 1..Len(requests) : requests[i] = c}

\* C4: a Load of a resident coordinate runs the callback exactly once with
\* the resident chunk before it returns and enqueues nothing; a Load of a
\* coordinate that is not resident does not run the callback before it
\* returns and appends exactly one request for the coordinate.
C4_LoadHitOrEnqueue ==
    [][\A c \in Loads :
          /\ (pc[c] = "idle" /\ pc'[c] # "idle") =>
                LET i == GetChunkIndex(arg'[c][1], arg'[c][2])
                IN IF i \in DOMAIN chunks
                   THEN /\ pc'[c] = "hit"
                        /\ got'[c] = <<chunks[i]>>
                        /\ requests' = requests
                   ELSE /\ pc'[c] = "send"
                        /\ got'[c] = <<>>
                        /\ requests' = requests
          /\ (pc[c] = "send" /\ pc'[c] # "send") =>
                /\ pc'[c] = "queued"
                /\ got'[c] = <<>>
                /\ requests' = Append(requests, c)
                /\ arg'[c] = arg[c]
          /\ pc[c] = "hit" =>
                /\ pc'[c] = "hit"
                /\ got'[c] = got[c]
                /\ InChannel(c) = {}
          /\ Cardinality(InChannel(c)) <= 1
      ]_vars

C4_Witness ==
    \E c, d \in Loads : /\ pc[c] = "hit" /\ Len(got[c]) = 1
                        /\ pc[d] = "queued" /\ got[d] = <<>> /\ InChannel(d) # {}

\* C5: with the request channel at capacity, a Load of a coordinate that is
\* not resident surfaces a failure to its caller: the call is not blocked.
C5_FullQueueDoesNotBlock ==
    \A c \in Loads :
        (pc[c] = "send" /\ Len(requests) >= QueueCap) => ENABLED LoadChunkSend(c)

\* C6: Get returns (chunk, true) exactly when the coordinate is in the
\* cache, (nil, false) otherwise, and changes neither the cache, nor the
\* request channel, nor the table of open regions, nor any request.
C6_GetIsPure ==
    [][(calls' = calls + 1 /\ last'.op = "Get") =>
          LET i == GetChunkIndex(last'.k[1], last'.k[2])
          IN /\ last'.ok = (i \in DOMAIN chunks)
             /\ last'.chunk = IF i \in DOMAIN chunks THEN chunks[i] ELSE Nil
             /\ UNCHANGED <<chunks, requests, regions, pc, arg, got, res, disk>>
      ]_vars

C6_Witness ==
    /\ last.op = "Get" /\ last.ok /\ last.chunk = chunks[GetChunkIndex(last.k[1], last.k[2])]
    /\ \E c \in Loads : pc[c] \in {"queued", "load"}

\* C7: after Unload(x, z) the coordinate is not resident, the residency of
\* every other coordinate is as before, and nothing of a region container
\* was written.
C7_UnloadOnlyRemoves ==
    [][(calls' = calls + 1 /\ last'.op = "Unload") =>
          LET i == GetChunkIndex(last'.k[1], last'.k[2])
          IN /\ i \notin DOMAIN chunks'
             /\ \A j \in (DOMAIN chunks \cup DOMAIN chunks') \ {i} :
                   /\ j \in DOMAIN chunks /\ j \in DOMAIN chunks'
                   /\ chunks'[j] = chunks[j]
             /\ UNCHANGED <<regions, disk, Header, File>>
      ]_vars

C7_Witness ==
    /\ last.op = "Unload" /\ last.ok
    /\ ~IsChunkLoaded(last.k)
    /\ \E j \in Coords : j # last.k /\ IsChunkLoaded(j)

\* C8: when the resolution of a queued request finds the slot not
\* generated, or the stored payload does not decode, or the region cannot
\* be opened or read, the provider generates the chunk, caches it and runs
\* the callback: the request is never failed, crashed or left pending.
C8_FallbackCompletes ==
    \A c \in Loads :
        /\ res[c] # "panic"
        /\ (res[c] = "generated" /\ pc[c] = "done") => Len(got[c]) = 1

---------------------------------------------------------------------------
(* Claims about the region container.                                      *)

\* C9: Write(x, z, P, T) followed by Read(x, z) returns exactly P and T.
C9_WriteReadRoundTrip ==
    (lastWrite.op = "Write" /\ lastRead.op = "Read"
       /\ lastRead.x = lastWrite.x /\ lastRead.z = lastWrite.z)
    => (lastRead.data = lastWrite.data /\ lastRead.tag = lastWrite.tag)

\* C10: after any sequence of Writes on a newly created container a slot is
\* present (offset >= 8192 and sector count # 0) exactly when Write was
\* called for it; HasChunkGenerated(x, z) holds right after Write(x, z).
C10_PresentIffWritten ==
    isNew => /\ \A i \in DOMAIN Header.Locations :
                   IsExistent(Header.Locations[i]) <=> i \in written
             /\ lastWrite.op = "Write" => HasChunkGenerated(lastWrite.x, lastWrite.z)

---------------------------------------------------------------------------
(* Compaction of the region file (Region.CleanGarbage).                    *)

MaxCompacts == 2

\* File.Truncate(size): the file gets that length, cut or extended with
\* zeros; the position stays where it is.
Truncate(f, size) ==
    [f EXCEPT !.len = size,
              !.nz = [i \in {p \in DOMAIN f.nz : p < size} |-> f.nz[i]]]

\* File.Write(b), as io.Copy calls it: writes at the file position and
\* moves it.  io.Copy of an empty buffer writes nothing.
FileWrite(f, b) ==
    IF b.len = 0 THEN f ELSE [WriteAt(f, f.pos, b) EXCEPT !.pos = f.pos + b.len]

\* CleanGarbage, the length l read at the offset of slot i.
StoredLength(i) == Int32At(ReadAt(File, Header.Locations[i].Offset, 4), 0)

\* CleanGarbage, the slots that pass both continue statements of the loop.
Kept ==
    {i \in DOMAIN Header.Locations :
        Header.Locations[i].Offset # 0 /\ StoredLength(i) > 0}

\* CleanGarbage, what one iteration appends to fileBuffer: buffer.Bytes()
\* is the unread part of the buffer, and binary.Read has read the four
\* bytes of the length, so it is the l bytes after the length word and the
\* padding up to whole sectors.
Repacked(i) ==
    LET l == StoredLength(i)
        data == ReadAt(File, Header.Locations[i].Offset + 4, l)
        paddingLength == Ceil(l, SectorSize) * SectorSize
    IN Concat(data, Zeros(paddingLength - l))

\* CleanGarbage, fileBuffer after the loop went through the slots of S in
\* increasing order.
RECURSIVE fileBuffer(_)
fileBuffer(S) ==
    IF S = {} THEN Zeros(0)
    ELSE LET i == CHOOSE m \in S : \A j \in S : j <= m
         IN Concat(fileBuffer(S \ {i}), Repacked(i))

\* CleanGarbage, the header it leaves: slots with a stored length <= 0 get
\* offset 0.
CleanedHeader ==
    [Header EXCEPT
        !.Locations = [i \in DOMAIN Header.Locations |->
            IF Header.Locations[i].Offset # 0 /\ StoredLength(i) <= 0
            THEN [Header.Locations[i] EXCEPT !.Offset = 0]
            ELSE Header.Locations[i]]]

\* CleanGarbage, the file it leaves: io.Copy and File.Truncate(lastOffset).
CleanedFile ==
    LET stream == fileBuffer(Kept)
        lastOffset == HeaderSize + stream.len
    IN Truncate(FileWrite(File, stream), lastOffset)

\* CleanGarbage leaving the offset of a slot with a stored length <= 0.
CleanGarbage_NoReset ==
    /\ Header' = Header
    /\ File' = Truncate(FileWrite(File, fileBuffer(Kept)), HeaderSize + fileBuffer(Kept).len)

\* CleanGarbage: slots with a stored length <= 0 get offset 0, the rebuilt
\* stream is copied into the file at the file position, and the file is
\* truncated to lastOffset.  The offsets of the slots kept are not assigned.
CleanGarbage ==
    /\ Header' = CleanedHeader
    /\ File' = CleanedFile

\* A client compacts the region file.
Compact ==
    /\ ~crashed
    /\ compacts < MaxCompacts
    /\ compacts' = compacts + 1
    /\ CleanGarbage
    /\ lastWrite' = [NoWrite EXCEPT !.op = "Compact"]
    /\ lastRead' = NoWrite
    /\ UNCHANGED <<others, pvars, crashed, writes, written, isNew>>

\* A well-formed region file made by another writer, with garbage in it:
\* the chunk (1, 0) is stored in sector 2 (location word 2<<8 | 1) as a
\* record of 100 payload bytes, the chunk (0, 0) in sector 4 (location word
\* 4<<8 | 1) as a record of 50 payload bytes, and sector 3 holds the record
\* of (0, 0) that was there before the chunk grew and was moved.
GappedFile ==
    LET header == WriteAt(WriteAt(WriteAt(WriteAt(Zeros(HeaderSize + 3 * SectorSize),
                      0, BE32(1025)), 4, BE32(513)),
                      HeaderSize \div 2, BE32(70000)),
                      HeaderSize \div 2 + 4, BE32(69000))
        sector2 == Concat(BE32(101), Concat(FromSeq(<<2>>), Payload(100, 5, 6)))
        sector3 == Concat(BE32(31), Concat(FromSeq(<<2>>), Payload(30, 8, 9)))
        sector4 == Concat(BE32(51), Concat(FromSeq(<<2>>), Payload(50, 10, 11)))
    IN WriteAt(WriteAt(WriteAt(header, 2 * SectorSize, sector2),
                       3 * SectorSize, sector3),
               4 * SectorSize, sector4)

\* The same file after a corruption: the length word of the record of the
\* chunk (1, 0) reads -3.
CorruptFile == WriteAt(GappedFile, 2 * SectorSize, BE32(-3))

\* One region container, opened on a new file, on a file without garbage,
\* on a file with garbage or on a corrupt file, and the clients writing,
\* reading and compacting.
CompactInit ==
    /\ ProviderInit
    /\ disk = [k \in Coords |-> "absent"]
    /\ crashed = FALSE
    /\ \E contents \in {EmptyFile, ExistingFile, GappedFile, CorruptFile} :
          OpenRegion(contents)
    /\ LoaderInit /\ SegmentInit /\ ChunkInit /\ ExtrasInit

CompactNext ==
    \/ \E k \in RCoords, data \in Payloads : Write(k[1], k[2], data, 2)
    \/ \E k \in RCoords : Read(k[1], k[2])
    \/ Compact

CompactSpec == CompactInit /\ [][CompactNext]_vars

\* A whole number of sectors holding n bytes.
Padded(n) == Ceil(n, SectorSize) * SectorSize

\* The slots that are present.
Present == {i \in DOMAIN Header.Locations : IsExistent(Header.Locations[i])}

\* The size of the record of slot i in the file: the length word and the
\* bytes it counts.
RecordSize(i) == LengthOffset + StoredLength(i)

RECURSIVE PaddedSum(_)
PaddedSum(S) ==
    IF S = {} THEN 0
    ELSE LET i == CHOOSE m \in S : TRUE
         IN Padded(RecordSize(i)) + PaddedSum(S \ {i})

\* C11: after Compact the file length is the header size plus the padded
\* record sizes of the present slots, and the records of the present slots
\* lie one after the other in slot order right after the header.
C11_CompactedLayout ==
    lastWrite.op = "Compact" =>
        /\ File.len = HeaderSize + PaddedSum(Present)
        /\ \A i \in Present :
              Header.Locations[i].Offset
                  = HeaderSize + PaddedSum({j \in Present : j < i})

\* C12: a second Compact right after a Compact leaves the bytes of the file
\* and the location table as the first Compact left them.
C12_CompactIdempotent ==
    [][(lastWrite.op = "Compact" /\ compacts' = compacts + 1) =>
          /\ File'.len = File.len /\ File'.nz = File.nz
          /\ Header'.Locations = Header.Locations
      ]_vars

\* GetChunkData(x, z): one of its two File.ReadAt calls gets fewer bytes
\* than its buffer holds, for which ReadAt returns an error (io.EOF at the
\* end of the file).
ShortRead(x, z) ==
    LET loc == GetLocation(x, z)
        length == Int32At(ReadAt(File, loc.Offset, 5), 0)
    IN /\ loc.Offset # 0
       /\ \/ loc.Offset < 0
          \/ loc.Offset + 5 > File.len
          \/ length > 0 /\ loc.Offset + 5 + length > File.len

\* C13: an I/O failure in an operation on a region file is returned to the
\* caller of the operation as an error, never swallowed.  GetChunkData has
\* the compression type and the data as its results and no error result, so
\* a Read that returns has reported success: no Read returns after one of
\* its reads of the file came out short.
C13_ReadFailureReported ==
    (lastRead.op = "Read" /\ ~crashed) => ~ShortRead(lastRead.x, lastRead.z)

---------------------------------------------------------------------------
(* The chunk loader (src/unnamed/part_008).                                *)

MaxLoaderSteps == 4

\* The centers the loader is moved to, the view distances and per-tick
\* limits it is asked for, and the coordinates of direct LoadChunk and
\* UnloadChunk calls.
Centers == {<<0, 0>>, <<2, -1>>}
Radii == {0, 1, 2}
PerTicks == {1, 2}
CallCoords == {<<0, 0>>, <<0, 1>>}

\* The maps of the loader, as the value the queue operations work on.
LoaderMaps ==
    [loaded |-> loadedChunks, load |-> loadChunkQueue, unload |-> unloadChunkQueue]

\* HasChunkInUse
HasChunkInUse(l, k) == k \in l.loaded

\* Loader.UnloadChunk without its delete statement.
LoaderUnloadChunk_NoDelete(l, k) ==
    [l EXCEPT !.unload = IF HasChunkInUse(l, k) THEN @ \cup {k} ELSE @]

\* Loader.LoadChunk(x, z)
LoaderLoadChunk(l, k) ==
    [l EXCEPT !.load = IF ~HasChunkInUse(l, k) THEN @ \cup {k} ELSE @,
              !.unload = @ \ {k}]

\* Loader.UnloadChunk(x, z)
LoaderUnloadChunk(l, k) ==
    [l EXCEPT !.unload = IF HasChunkInUse(l, k) THEN @ \cup {k} ELSE @,
              !.load = @ \ {k}]

\* int32(math.Pow(float64(v), 2))
Pow2(v) == v * v

\* SortChunks with >= in the place of > in the test of its inner loop.
Skipped_Inclusive(x, z, RadiusSquared) == Pow2(x) + Pow2(z) >= RadiusSquared

\* SortChunks, the test of the inner loop: the offset (x, z) is passed over.
Skipped(x, z, RadiusSquared) == Pow2(x) + Pow2(z) > RadiusSquared

\* SortChunks, the two nested loops: Loader.LoadChunk for the offsets of S.
RECURSIVE SortLoop(_, _, _)
SortLoop(l, c, S) ==
    IF S = {} THEN l
    ELSE LET o == CHOOSE m \in S : TRUE
         IN SortLoop(LoaderLoadChunk(l, <<c[1] + o[1], c[2] + o[2]>>), c, S \ {o})

\* SortChunks(viewDistance) for a loader at c.
SortChunks(l, c, viewDistance) ==
    LET RadiusSquared == Pow2(viewDistance)
        queued == [l EXCEPT !.unload = @ \cup l.loaded, !.load = {}]
        offsets == {o \in (-viewDistance..viewDistance) \X (-viewDistance..viewDistance) :
                       ~Skipped(o[1], o[2], RadiusSquared)}
    IN SortLoop(queued, c, offsets)

\* The loader's maps become those of l.
LoaderBecomes(l) ==
    /\ loadedChunks' = l.loaded
    /\ loadChunkQueue' = l.load
    /\ unloadChunkQueue' = l.unload

\* Which queue a coordinate is in.
QueueOf(k) ==
    IF k \in loadChunkQueue THEN "load"
    ELSE IF k \in unloadChunkQueue THEN "unload" ELSE "none"

LoaderStep(op, k, r) ==
    /\ lsteps < MaxLoaderSteps
    /\ lsteps' = lsteps + 1
    /\ llast' = [op |-> op, k |-> k, r |-> r, was |-> QueueOf(k)]
    /\ UNCHANGED <<pvars, crashed, rvars, svars, cvars, extras>>

\* Move(chunkX, chunkZ)
Move(k) ==
    /\ LoaderStep("Move", k, 0)
    /\ center' = k
    /\ trace' = <<>>
    /\ UNCHANGED <<loadedChunks, loadChunkQueue, unloadChunkQueue, inflight>>

\* SortChunks(viewDistance)
Sort(viewDistance) ==
    /\ LoaderStep("Sort", center, viewDistance)
    /\ LoaderBecomes(SortChunks(LoaderMaps, center, viewDistance))
    /\ trace' = <<>>
    /\ UNCHANGED <<center, inflight>>

\* A client calls Loader.LoadChunk(x, z).
CallLoadChunk(k) ==
    /\ LoaderStep("LoadChunk", k, 0)
    /\ LoaderBecomes(LoaderLoadChunk(LoaderMaps, k))
    /\ trace' = <<>>
    /\ UNCHANGED <<center, inflight>>

\* A client calls Loader.UnloadChunk(x, z).
CallUnloadChunk(k) ==
    /\ LoaderStep("UnloadChunk", k, 0)
    /\ LoaderBecomes(LoaderUnloadChunk(LoaderMaps, k))
    /\ trace' = <<>>
    /\ UNCHANGED <<center, inflight>>

\* The number of entries a drain loop handles: count starts at 1 and the
\* loop breaks once count >= perTick.
Handled(perTick, n) ==
    IF perTick - 1 <= 0 THEN 0 ELSE IF perTick - 1 < n THEN perTick - 1 ELSE n

\* The sets of n entries a range over the map Q can take first.
RECURSIVE Picks(_, _)
Picks(Q, n) ==
    IF n = 0 THEN {{}}
    ELSE UNION {{P \cup {k} : P \in Picks(Q \ {k}, n - 1)} : k \in Q}

\* The provider owes one more callback for each coordinate of S.
Owed(S) ==
    [k \in DOMAIN inflight \cup S |->
        (IF k \in DOMAIN inflight THEN inflight[k] ELSE 0) + (IF k \in S THEN 1 ELSE 0)]

\* One entry of the trace: a hook or a drain, the coordinates it handled,
\* and those of them for which a hook ran within the call.
Event(ev, ks, hit) == [ev |-> ev, ks |-> ks, hit |-> hit]

\* ProcessLoadQueue(perTick): the range over the map takes the entries of S
\* (in any order) and calls the provider's LoadChunk for each; the provider
\* has the chunks of hit in its cache and runs the callback, which sets the
\* chunk in use, within that call.
ProcessLoadQueue(perTick) ==
    \E S \in Picks(loadChunkQueue, Handled(perTick, Cardinality(loadChunkQueue))) :
       \E hit \in SUBSET S :
          /\ LoaderStep("ProcessLoadQueue", center, perTick)
          /\ loadChunkQueue' = loadChunkQueue \ S
          /\ loadedChunks' = loadedChunks \cup hit
          /\ inflight' = Owed(S \ hit)
          /\ trace' = <<Event("Load", S, hit)>>
          /\ UNCHANGED <<center, unloadChunkQueue>>

\* ProcessUnloadQueue(perTick): the range over the map takes the entries of
\* S; UnloadFunction runs for those the provider still has in its cache
\* (found), and each is deleted from loadedChunks and from loadChunkQueue.
ProcessUnloadQueue(perTick) ==
    \E S \in Picks(unloadChunkQueue, Handled(perTick, Cardinality(unloadChunkQueue))) :
       \E found \in SUBSET S :
          /\ LoaderStep("ProcessUnloadQueue", center, perTick)
          /\ loadedChunks' = loadedChunks \ S
          /\ loadChunkQueue' = loadChunkQueue \ S
          /\ trace' = <<Event("Unload", S, found)>>
          /\ UNCHANGED <<center, unloadChunkQueue, inflight>>

\* The provider runs the callback of a request it resolved: setChunkInUse.
LoadCallback(k) ==
    /\ k \in DOMAIN inflight
    /\ inflight' = [j \in {i \in DOMAIN inflight : i # k \/ inflight[i] > 1} |->
                       IF j = k THEN inflight[j] - 1 ELSE inflight[j]]
    /\ loadedChunks' = loadedChunks \cup {k}
    /\ llast' = [op |-> "callback", k |-> k, r |-> 0, was |-> QueueOf(k)]
    /\ trace' = <<Event("Loaded", {k}, {k})>>
    /\ UNCHANGED <<center, loadChunkQueue, unloadChunkQueue, lsteps>>
    /\ UNCHANGED <<pvars, crashed, rvars, svars, cvars, extras>>

\* The coordinates the loader can come to ask the provider for.
LoaderCoords ==
    CallCoords \cup
    UNION {{<<c[1] + dx, c[2] + dz>> : dx \in -2..2, dz \in -2..2} : c \in Centers}

\* One loader, the tick thread calling it, and the provider's callbacks.
LoaderSpecInit ==
    /\ ProviderInit
    /\ disk = [k \in Coords |-> "absent"]
    /\ crashed = FALSE
    /\ NoRegion
    /\ LoaderInit /\ SegmentInit /\ ChunkInit /\ ExtrasInit

LoaderNext ==
    \/ \E k \in Centers : Move(k)
    \/ \E r \in Radii : Sort(r)
    \/ \E k \in CallCoords : CallLoadChunk(k)
    \/ \E k \in CallCoords : CallUnloadChunk(k)
    \/ \E perTick \in PerTicks : ProcessLoadQueue(perTick)
    \/ \E perTick \in PerTicks : ProcessUnloadQueue(perTick)
    \/ \E k \in LoaderCoords : LoadCallback(k)

LoaderSpec == LoaderSpecInit /\ [][LoaderNext]_vars

\* C14: no coordinate is in the load queue and in the unload queue at once.
C14_QueuesDisjoint == loadChunkQueue \cap unloadChunkQueue = {}

\* A coordinate of the load queue was put into the unload queue.
C14_Witness ==
    /\ llast.op = "UnloadChunk"
    /\ llast.was = "load"
    /\ llast.k \in unloadChunkQueue
    /\ llast.k \notin loadChunkQueue

\* The disc of radius r around c.
Disc(c, r) ==
    {k \in ((c[1] - r)..(c[1] + r)) \X ((c[2] - r)..(c[2] + r)) :
        (k[1] - c[1]) * (k[1] - c[1]) + (k[2] - c[2]) * (k[2] - c[2]) <= r * r}

\* C15: after Sort with center c and radius r the load queue is the set of
\* the coordinates of the disc that are not in use (13 coordinates for
\* r = 2 and the center alone for r = 0 when nothing is in use), every
\* coordinate in use outside the disc is in the unload queue, and no
\* coordinate of the disc is in the unload queue.
C15_SortQueuesTheDisc ==
    llast.op = "Sort" =>
        LET D == Disc(center, llast.r)
        IN /\ loadChunkQueue = D \ loadedChunks
           /\ (loadedChunks \ D) \subseteq unloadChunkQueue
           /\ unloadChunkQueue \cap D = {}
           /\ (loadedChunks = {} /\ llast.r = 2) => Cardinality(loadChunkQueue) = 13
           /\ (loadedChunks = {} /\ llast.r = 0) => loadChunkQueue = {center}

\* Sort after a move of the center, with a chunk in use outside the disc
\* of radius 2 and the coordinates of the disc queued for loading.
C15_Witness ==
    /\ llast.op = "Sort"
    /\ llast.r = 2
    /\ center # <<0, 0>>
    /\ loadedChunks \ Disc(center, llast.r) # {}
    /\ loadedChunks \subseteq unloadChunkQueue
    /\ Cardinality(loadChunkQueue) = 13

---------------------------------------------------------------------------
(* The segment (SubChunk, src/chunks/viewer.go).                           *)

MaxSegmentSteps == 3

\* b[i] = v for a byte string b.
SetAt(b, i, v) ==
    [b EXCEPT !.nz = [j \in (DOMAIN b.nz \ {i}) \cup (IF v # 0 THEN {i} ELSE {}) |->
                         IF j = i THEN v ELSE b.nz[j]]]

NewSubChunk ==
    [BlockIds |-> Zeros(4096), BlockData |-> Zeros(2048),
     BlockLight |-> Zeros(2048), SkyLight |-> Zeros(2048)]

\* IsAllAir: string(subChunk.BlockIds) == string(make([]byte, 4096))
IsAllAir_DataToo(sub) == sub.BlockIds = Zeros(4096) /\ sub.BlockData = Zeros(2048)

IsAllAir(sub) == sub.BlockIds = Zeros(4096)

\* (x << 8) | (z << 4) | y, for x, y, z in 0..15
GetIdIndex(x, y, z) == x * 256 + z * 16 + y

\* (x << 7) + (z << 3) + (y >> 1)
GetDataIndex(x, y, z) == x * 128 + z * 8 + (y \div 2)

SubChunk_GetBlockId(sub, x, y, z) == At(sub.BlockIds, GetIdIndex(x, y, z))

SubChunk_SetBlockId(sub, x, y, z, id) ==
    [sub EXCEPT !.BlockIds = SetAt(@, GetIdIndex(x, y, z), id)]

\* The body shared by GetBlockLight, GetSkyLight and GetBlockData: data & 0x0f
\* when (y & 0x01) == 0, data >> 4 otherwise.
LowOrHigh(data, y) == IF y % 2 = 0 THEN data % 16 ELSE data \div 16

\* The body shared by SetBlockLight, SetSkyLight and SetBlockData, for the
\* byte d and the value v: (d & 0xf0) | (v & 0x0f) when (y & 0x01) == 0,
\* ((v & 0x0f) << 4) | (d & 0x0f) otherwise.
Merged(d, y, v) ==
    IF y % 2 = 0 THEN (d - (d % 16)) + (v % 16) ELSE (v % 16) * 16 + (d % 16)

\* SetBlockLight storing the value as the whole byte.
SubChunk_SetBlockLight_WholeByte(sub, x, y, z, light) ==
    [sub EXCEPT !.BlockLight = SetAt(@, GetDataIndex(x, y, z), light % 16)]

SubChunk_GetBlockLight(sub, x, y, z) ==
    LowOrHigh(At(sub.BlockLight, GetDataIndex(x, y, z)), y)

SubChunk_SetBlockLight(sub, x, y, z, light) ==
    LET i == GetDataIndex(x, y, z)
    IN [sub EXCEPT !.BlockLight = SetAt(@, i, Merged(At(sub.BlockLight, i), y, light))]

SubChunk_GetSkyLight(sub, x, y, z) ==
    LowOrHigh(At(sub.SkyLight, GetDataIndex(x, y, z)), y)

SubChunk_SetSkyLight(sub, x, y, z, light) ==
    LET i == GetDataIndex(x, y, z)
    IN [sub EXCEPT !.SkyLight = SetAt(@, i, Merged(At(sub.SkyLight, i), y, light))]

SubChunk_GetBlockData(sub, x, y, z) ==
    LowOrHigh(At(sub.BlockData, GetDataIndex(x, y, z)), y)

SubChunk_SetBlockData(sub, x, y, z, data) ==
    LET i == GetDataIndex(x, y, z)
    IN [sub EXCEPT !.BlockData = SetAt(@, i, Merged(At(sub.BlockData, i), y, data))]

\* The positions, block ids and 4-bit values the clients of the segment
\* use: two positions that share a byte of the half-resolution arrays, and
\* the position with the highest index.
SegmentPositions == {<<0, 0, 0>>, <<0, 1, 0>>, <<15, 15, 15>>}
BlockIdValues == {0, 7}
NibbleValues == {0, 9, 15}

SegmentStep(op, p, v) ==
    /\ ssteps < MaxSegmentSteps
    /\ ssteps' = ssteps + 1
    /\ slast' = [op |-> op, x |-> p[1], y |-> p[2], z |-> p[3], v |-> v]
    /\ UNCHANGED <<pvars, crashed, rvars, lvars, cvars, extras>>

SegmentSetBlockId(p, id) ==
    /\ SegmentStep("SetBlockId", p, id)
    /\ subChunk' = SubChunk_SetBlockId(subChunk, p[1], p[2], p[3], id)

SegmentSetBlockData(p, v) ==
    /\ SegmentStep("SetBlockData", p, v)
    /\ subChunk' = SubChunk_SetBlockData(subChunk, p[1], p[2], p[3], v)

SegmentSetBlockLight(p, v) ==
    /\ SegmentStep("SetBlockLight", p, v)
    /\ subChunk' = SubChunk_SetBlockLight(subChunk, p[1], p[2], p[3], v)

SegmentSetSkyLight(p, v) ==
    /\ SegmentStep("SetSkyLight", p, v)
    /\ subChunk' = SubChunk_SetSkyLight(subChunk, p[1], p[2], p[3], v)

SegmentGetBlockId(p) ==
    /\ SegmentStep("GetBlockId", p, SubChunk_GetBlockId(subChunk, p[1], p[2], p[3]))
    /\ UNCHANGED subChunk

SegmentGetBlockData(p) ==
    /\ SegmentStep("GetBlockData", p, SubChunk_GetBlockData(subChunk, p[1], p[2], p[3]))
    /\ UNCHANGED subChunk

SegmentGetBlockLight(p) ==
    /\ SegmentStep("GetBlockLight", p, SubChunk_GetBlockLight(subChunk, p[1], p[2], p[3]))
    /\ UNCHANGED subChunk

SegmentGetSkyLight(p) ==
    /\ SegmentStep("GetSkyLight", p, SubChunk_GetSkyLight(subChunk, p[1], p[2], p[3]))
    /\ UNCHANGED subChunk

\* One segment and its clients.
SegmentSpecInit ==
    /\ ProviderInit
    /\ disk = [k \in Coords |-> "absent"]
    /\ crashed = FALSE
    /\ NoRegion
    /\ LoaderInit /\ SegmentInit /\ ChunkInit /\ ExtrasInit

SegmentNext ==
    \/ \E p \in SegmentPositions, id \in BlockIdValues : SegmentSetBlockId(p, id)
    \/ \E p \in SegmentPositions, v \in NibbleValues : SegmentSetBlockData(p, v)
    \/ \E p \in SegmentPositions, v \in NibbleValues : SegmentSetBlockLight(p, v)
    \/ \E p \in SegmentPositions, v \in NibbleValues : SegmentSetSkyLight(p, v)
    \/ \E p \in SegmentPositions : SegmentGetBlockId(p)
    \/ \E p \in SegmentPositions : SegmentGetBlockData(p)
    \/ \E p \in SegmentPositions : SegmentGetBlockLight(p)
    \/ \E p \in SegmentPositions : SegmentGetSkyLight(p)

SegmentSpec == SegmentSpecInit /\ [][SegmentNext]_vars

\* The value a channel of a segment holds at a position.
Stored4(sub, channel, x, y, z) ==
    CASE channel = "BlockData" -> SubChunk_GetBlockData(sub, x, y, z)
      [] channel = "BlockLight" -> SubChunk_GetBlockLight(sub, x, y, z)
      [] channel = "SkyLight" -> SubChunk_GetSkyLight(sub, x, y, z)

\* y with its lowest bit flipped.
PairOf(y) == IF y % 2 = 0 THEN y + 1 ELSE y - 1

\* C16: on each of the three nibble channels, get(x, y, z) after
\* set(x, y, z, v) returns v, and the value at the position that shares the
\* byte (y with its lowest bit flipped) is as it was before the set.
C16_NibbleRoundTrip ==
    [][\A channel \in {"BlockData", "BlockLight", "SkyLight"} :
          (ssteps' = ssteps + 1 /\ slast'.op = "Set" \o channel) =>
             /\ Stored4(subChunk', channel, slast'.x, slast'.y, slast'.z) = slast'.v
             /\ Stored4(subChunk', channel, slast'.x, PairOf(slast'.y), slast'.z)
                   = Stored4(subChunk, channel, slast'.x, PairOf(slast'.y), slast'.z)
      ]_vars

\* A value was set next to a non-zero value in the same byte, on the high
\* nibble, and read back.
C16_Witness ==
    /\ slast.op = "GetBlockLight" /\ slast.y % 2 = 1 /\ slast.v = 9
    /\ SubChunk_GetBlockLight(subChunk, slast.x, PairOf(slast.y), slast.z) = 15

\* Every block id of the segment is zero.
AllIdsZero(sub) == \A i \in 0..4095 : At(sub.BlockIds, i) = 0

\* C17: IsAllAir holds exactly when all 4096 block ids are zero: a new
\* segment is air-only, setting an id to a non-zero value makes it non-air,
\* setting the only non-zero id back to 0 makes it air-only again, and
\* writes of data and light leave the predicate as it is.
C17_AirIffAllIdsZero ==
    /\ IsAllAir(subChunk)
    /\ [](IsAllAir(subChunk) <=> AllIdsZero(subChunk))
    /\ [][/\ (slast'.op = "SetBlockId" /\ slast'.v # 0) => ~IsAllAir(subChunk')
          /\ (slast'.op = "SetBlockId" /\ slast'.v = 0 /\ ~IsAllAir(subChunk)
                /\ \A i \in DOMAIN subChunk.BlockIds.nz :
                      i = GetIdIndex(slast'.x, slast'.y, slast'.z))
             => IsAllAir(subChunk')
          /\ slast'.op \in {"SetBlockData", "SetBlockLight", "SetSkyLight"}
             => (IsAllAir(subChunk') <=> IsAllAir(subChunk))
      ]_vars

\* The only non-zero id of a segment that holds data was set back to 0.
C17_Witness ==
    /\ slast.op = "SetBlockId" /\ slast.v = 0 /\ ssteps = 3
    /\ IsAllAir(subChunk)
    /\ subChunk.BlockData # Zeros(2048)

---------------------------------------------------------------------------
(* The chunk (src/chunks/chunk.go, second revision).                       *)

MaxChunkSteps == 4

\* GetSubChunk(y): the map after the call, which puts a new segment at an
\* index that has none.
Chunk_GetSubChunk(subs, i) ==
    IF i \in DOMAIN subs THEN subs ELSE subs @@ (i :> NewSubChunk)

\* Chunk.SetBlockId(x, y, z, blockId): GetSubChunk(byte(y>>4)).SetBlockId(x, y&15, z, blockId)
Chunk_SetBlockId(subs, x, y, z, blockId) ==
    [Chunk_GetSubChunk(subs, y \div 16) EXCEPT
        ![y \div 16] = SubChunk_SetBlockId(@, x, y % 16, z, blockId)]

\* Chunk.GetBlockId(x, y, z), the value returned.
Chunk_GetBlockId(subs, x, y, z) ==
    SubChunk_GetBlockId(Chunk_GetSubChunk(subs, y \div 16)[y \div 16], x, y % 16, z)

\* GetHighestSubChunkIndex: the loop from 15 down.
RECURSIVE HighestSubChunkIndexFrom(_, _)
HighestSubChunkIndexFrom(subs, y) ==
    IF y < 0 THEN -1
    ELSE IF y \notin DOMAIN subs THEN HighestSubChunkIndexFrom(subs, y - 1)
    ELSE IF IsAllAir(subs[y]) THEN HighestSubChunkIndexFrom(subs, y - 1)
    ELSE y

GetHighestSubChunkIndex(subs) == HighestSubChunkIndexFrom(subs, 15)

\* SubChunk.GetHighestBlockY(x, z): the loop from y down; 0 when the column
\* of the segment holds no block.
RECURSIVE SubChunk_HighestBlockYFrom(_, _, _, _)
SubChunk_HighestBlockYFrom(sub, x, z, y) ==
    IF y < 0 THEN 0
    ELSE IF SubChunk_GetBlockId(sub, x, y, z) # 0 THEN y
    ELSE SubChunk_HighestBlockYFrom(sub, x, z, y - 1)

SubChunk_GetHighestBlockY(sub, x, z) == SubChunk_HighestBlockYFrom(sub, x, z, 15)

\* Chunk.GetHighestBlockY, the loop from segment y down: height is
\* GetHighestBlockY(x, z) | (y << 4) of the segment, a value from 0 to 255.
\* (GetSubChunk would put a new segment at an index without one; the loop
\* starts at a segment that exists and returns in its first iteration.)
RECURSIVE Chunk_HighestBlockYFrom(_, _, _, _)
Chunk_HighestBlockYFrom(subs, x, z, y) ==
    IF y < 0 THEN -1
    ELSE LET height == SubChunk_GetHighestBlockY(Chunk_GetSubChunk(subs, y)[y], x, z)
                          + y * 16
         IN IF height # -1 THEN height
            ELSE Chunk_HighestBlockYFrom(subs, x, z, y - 1)

\* Chunk.GetHighestBlockY(x, z)
Chunk_GetHighestBlockY(subs, x, z) ==
    LET index == GetHighestSubChunkIndex(subs)
    IN IF index = -1 THEN -1 ELSE Chunk_HighestBlockYFrom(subs, x, z, index)

\* (z << 4) | x
GetHeightMapIndex(x, z) == z * 16 + x

\* The height map RecalculateHeightMap leaves.
RecalculatedHeightMap(subs) ==
    [i \in 0..255 |-> Chunk_GetHighestBlockY(subs, i % 16, i \div 16) + 1]

\* PruneEmptySubChunks deleting every segment that is all air.
PruneEmptySubChunks_EveryEmpty(subs) ==
    [i \in {j \in DOMAIN subs : ~IsAllAir(subs[j])} |-> subs[i]]

\* PruneEmptySubChunks: the loop from y down.
RECURSIVE PruneFrom(_, _)
PruneFrom(subs, y) ==
    IF y < 0 THEN subs
    ELSE IF y \notin DOMAIN subs THEN PruneFrom(subs, y - 1)
    ELSE IF ~IsAllAir(subs[y]) THEN subs
    ELSE PruneFrom([i \in DOMAIN subs \ {y} |-> subs[i]], y - 1)

PruneEmptySubChunks(subs) == PruneFrom(subs, 15)

\* GetFilledSubChunks: byte(len(chunk.subChunks)); the call of
\* PruneEmptySubChunks before it is commented out.
GetFilledSubChunks(subs) == Cardinality(DOMAIN subs) % 256

\* The block positions and ids the clients of the chunk use: the lowest
\* block of one column, a block of the same column in segment 1, and the
\* highest block of another column, in segment 15.
ChunkPositions == {<<0, 0, 0>>, <<0, 17, 0>>, <<15, 255, 15>>}

ChunkStep(op, p, v) ==
    /\ csteps < MaxChunkSteps
    /\ csteps' = csteps + 1
    /\ clast' = [op |-> op, x |-> p[1], y |-> p[2], z |-> p[3], v |-> v]
    /\ UNCHANGED <<pvars, crashed, rvars, lvars, svars, extras>>

ChunkSetBlockId(p, id) ==
    /\ ChunkStep("SetBlockId", p, id)
    /\ subChunks' = Chunk_SetBlockId(subChunks, p[1], p[2], p[3], id)
    /\ UNCHANGED HeightMap

\* Chunk.GetBlockId: GetSubChunk makes the segment if the chunk has none there.
ChunkGetBlockId(p) ==
    /\ ChunkStep("GetBlockId", p, Chunk_GetBlockId(subChunks, p[1], p[2], p[3]))
    /\ subChunks' = Chunk_GetSubChunk(subChunks, p[2] \div 16)
    /\ UNCHANGED HeightMap

RecalculateHeightMap ==
    /\ ChunkStep("RecalculateHeightMap", <<0, 0, 0>>, 0)
    /\ HeightMap' = RecalculatedHeightMap(subChunks)
    /\ UNCHANGED subChunks

Prune ==
    /\ ChunkStep("PruneEmptySubChunks", <<0, 0, 0>>, 0)
    /\ subChunks' = PruneEmptySubChunks(subChunks)
    /\ UNCHANGED HeightMap

\* ToBinary: the first byte of the stream is subChunkCount.
ToBinary ==
    /\ ChunkStep("ToBinary", <<0, 0, 0>>, GetFilledSubChunks(subChunks))
    /\ UNCHANGED <<subChunks, HeightMap>>

\* One chunk and its clients.
ChunkSpecInit ==
    /\ ProviderInit
    /\ disk = [k \in Coords |-> "absent"]
    /\ crashed = FALSE
    /\ NoRegion
    /\ LoaderInit /\ SegmentInit /\ ChunkInit /\ ExtrasInit

ChunkNext ==
    \/ \E p \in ChunkPositions, id \in BlockIdValues : ChunkSetBlockId(p, id)
    \/ \E p \in ChunkPositions : ChunkGetBlockId(p)
    \/ RecalculateHeightMap
    \/ Prune
    \/ ToBinary

ChunkSpec == ChunkSpecInit /\ [][ChunkNext]_vars

\* The y of the blocks of the column (x, z) that have a non-zero id.
Occupied(subs, x, z) ==
    {16 * i + (j % 16) : i \in DOMAIN subs, j \in 0..4095} \cap
    {y \in 0..255 :
        /\ y \div 16 \in DOMAIN subs
        /\ At(subs[y \div 16].BlockIds, x * 256 + z * 16 + (y % 16)) # 0}

\* The height-map entry of a column without a block.
EmptyColumn == 0

\* C18: after RecalculateHeightMap the height-map entry of every column is
\* k + 1, k being the highest y of the column with a non-zero block id, and
\* the empty-column value when the column has no such y.
C18_HeightMapIsColumnTop ==
    clast.op = "RecalculateHeightMap" =>
        \A x \in 0..15, z \in 0..15 :
            LET ys == Occupied(subChunks, x, z)
            IN HeightMap[GetHeightMapIndex(x, z)]
                  = IF ys = {} THEN EmptyColumn
                    ELSE (CHOOSE k \in ys : \A y \in ys : y <= k) + 1

\* The highest index of a segment that holds a non-zero block id, or -1.
TopSegment(subs) ==
    LET filled == {i \in DOMAIN subs : ~AllIdsZero(subs[i])}
    IN IF filled = {} THEN -1 ELSE CHOOSE t \in filled : \A i \in filled : i <= t

\* C19: PruneEmptySubChunks keeps exactly the segments at an index up to
\* the highest segment that is not empty (none when the chunk is all air),
\* empty ones below it included, each at its index and with its contents.
C19_PruneKeepsUpToTop ==
    [][(csteps' = csteps + 1 /\ clast'.op = "PruneEmptySubChunks") =>
          /\ DOMAIN subChunks' = {i \in DOMAIN subChunks : i <= TopSegment(subChunks)}
          /\ \A i \in DOMAIN subChunks' : subChunks'[i] = subChunks[i]
      ]_vars

\* An empty segment above the highest non-empty one was dropped and an
\* empty segment below it was kept.
C19_Witness ==
    /\ clast.op = "PruneEmptySubChunks" /\ csteps = 4
    /\ DOMAIN subChunks = {0, 1}
    /\ IsAllAir(subChunks[0]) /\ ~IsAllAir(subChunks[1])

\* C20: the segment count ToBinary writes is at most the number of segments
\* left once the empty segments above the highest non-empty one are dropped.
C20_EncodedCountCompacted ==
    clast.op = "ToBinary" =>
        clast.v <= Cardinality({i \in DOMAIN subChunks : i <= TopSegment(subChunks)})

---------------------------------------------------------------------------
(* The dimension (src/dimension.go) over a provider, a block manager       *)
(* (src/blocks/manager.go) and the chunks of the provider.                 *)

MaxDimSteps == 4

\* Chunk.SetBlockData / GetBlockData: GetSubChunk(byte(y>>4)), then the
\* method of the segment with y&15.
Chunk_SetBlockData(subs, x, y, z, data) ==
    [Chunk_GetSubChunk(subs, y \div 16) EXCEPT
        ![y \div 16] = SubChunk_SetBlockData(@, x, y % 16, z, data)]

Chunk_GetBlockData(subs, x, y, z) ==
    SubChunk_GetBlockData(Chunk_GetSubChunk(subs, y \div 16)[y \div 16], x, y % 16, z)

\* GetBlockNBTIndex: ((y & 256) << 8) | ((x & 15) << 4) | (z & 15)
GetBlockNBTIndex(x, y, z) ==
    ((y \div 256) % 2) * 65536 + (x % 16) * 16 + (z % 16)

\* Chunk.SetBlockNBTAt: a nil compound deletes the entry.
SetBlockNBTAt(blockNBT, x, y, z, nbt) ==
    LET i == GetBlockNBTIndex(x, y, z)
    IN IF nbt = "nil"
       THEN [j \in DOMAIN blockNBT \ {i} |-> blockNBT[j]]
       ELSE [j \in DOMAIN blockNBT \cup {i} |-> IF j = i THEN nbt ELSE blockNBT[j]]

\* Chunk.GetBlockNBTAt: c, ok = chunk.blockNBT[index]
GetBlockNBTAt(blockNBT, x, y, z) ==
    LET i == GetBlockNBTIndex(x, y, z)
    IN IF i \in DOMAIN blockNBT THEN <<blockNBT[i], TRUE>> ELSE <<"nil", FALSE>>

\* The contents of a chunk made by chunks.New.
NewChunkData == [subChunks |-> <<>>, blockNBT |-> <<>>]

\* int32(x>>4), int32(z>>4) of a block position.
ChunkOf(v) == <<v[1] \div 16, v[3] \div 16>>

\* Manager.Get: the block the registered function makes (blocks.New(id,
\* data), a block without compound), or nil and UnregisteredBlock.
ManagerGet(blockId, blockData) ==
    IF blockId \in blockManager
    THEN <<[id |-> blockId, data |-> blockData, nbt |-> "nil"], "nil">>
    ELSE <<NoBlock, "UnregisteredBlock">>

\* GetBlockAt answering for a chunk that is not loaded with a block of air.
GetBlockAt_Air(v) ==
    LET k == ChunkOf(v)
        x == v[1] % 16
        y == v[2]
        z == v[3] % 16
    IN IF ~GetChunk(k)[2]
       THEN [block |-> NoBlock, err |-> "nil", panic |-> FALSE, data |-> chunkData]
       ELSE LET cd == chunkData[k]
                r == ManagerGet(Chunk_GetBlockId(cd.subChunks, x, y, z),
                                Chunk_GetBlockData(cd.subChunks, x, y, z))
            IN [block |-> r[1], err |-> r[2], panic |-> FALSE,
                data |-> [chunkData EXCEPT ![k].subChunks = Chunk_GetSubChunk(@, y \div 16)]]

\* Dimension.GetBlockAt: the block and the error returned, whether the call
\* panics, and the chunks after it (GetBlockId makes the segment of the
\* position when the chunk has none).  With err != nil the block is the nil
\* interface, and block.SetNBT(nbt) on it is a nil dereference.
GetBlockAt(v) ==
    LET k == ChunkOf(v)
        x == v[1] % 16
        y == v[2]
        z == v[3] % 16
    IN IF ~GetChunk(k)[2]
       THEN [block |-> NoBlock, err |-> "UnloadedChunk", panic |-> FALSE, data |-> chunkData]
       ELSE LET cd == chunkData[k]
                r == ManagerGet(Chunk_GetBlockId(cd.subChunks, x, y, z),
                                Chunk_GetBlockData(cd.subChunks, x, y, z))
            IN [block |-> r[1], err |-> r[2],
                panic |-> r[2] # "nil" /\ GetBlockNBTAt(cd.blockNBT, x, y, z)[2],
                data |-> [chunkData EXCEPT ![k].subChunks = Chunk_GetSubChunk(@, y \div 16)]]

\* The callback of SetBlockAt run on a chunk.
Placed(cd, v, block) ==
    LET x == v[1] % 16
        y == v[2]
        z == v[3] % 16
    IN [subChunks |-> Chunk_SetBlockData(Chunk_SetBlockId(cd.subChunks, x, y, z, block.id),
                                         x, y, z, block.data),
        blockNBT |-> SetBlockNBTAt(cd.blockNBT, x, y, z, block.nbt)]

\* The chunks of the callers, the block positions (two of one column and one
\* of the chunk next to it, at a negative x) and the blocks they place.
DimChunks == {<<0, 0>>, <<-1, 0>>}
DimPositions == {<<0, 1, 0>>, <<0, 2, 0>>, <<-1, 1, 0>>}
DimBlocks == {[id |-> 7, data |-> 3, nbt |-> "c1"],
              [id |-> 7, data |-> 0, nbt |-> "c2"],
              [id |-> 0, data |-> 0, nbt |-> "nil"]}
DimBlockIds == {0, 7}

\* The compounds recorded for the positions outside the chunk k.
Outside(k) == [p \in {q \in DOMAIN nbtStored : ChunkOf(q) # k} |-> nbtStored[p]]

\* The record of the compound stored at a position.
Recorded(v, nbt) ==
    IF nbt = "nil"
    THEN [p \in DOMAIN nbtStored \ {v} |-> nbtStored[p]]
    ELSE [p \in DOMAIN nbtStored \cup {v} |-> IF p = v THEN nbt ELSE nbtStored[p]]

DimStep(op, v, block, err) ==
    /\ ~crashed
    /\ dsteps < MaxDimSteps
    /\ dsteps' = dsteps + 1
    /\ dlast' = [op |-> op, v |-> v, block |-> block, err |-> err]
    /\ UNCHANGED <<pc, arg, got, res, regions, disk, calls, last, rvars, lvars, svars, cvars,
                   avars, later>>

\* Manager.Register / Deregister
Register(blockId) ==
    /\ DimStep("Register", <<0, 0, 0>>, NoBlock, "nil")
    /\ blockManager' = blockManager \cup {blockId}
    /\ UNCHANGED <<chunks, requests, chunkData, nbtStored, crashed>>

Deregister(blockId) ==
    /\ DimStep("Deregister", <<0, 0, 0>>, NoBlock, "nil")
    /\ blockManager' = blockManager \ {blockId}
    /\ UNCHANGED <<chunks, requests, chunkData, nbtStored, crashed>>

\* Dimension.SetChunk with a chunk made by chunks.New.
DimSetChunk(k) ==
    /\ DimStep("SetChunk", <<0, 0, 0>>, NoBlock, "nil")
    /\ chunks' = Stored(k, NewChunk(dsteps + 1, k, "set"))
    /\ chunkData' = [j \in DOMAIN chunkData \cup {k} |->
                        IF j = k THEN NewChunkData ELSE chunkData[j]]
    /\ nbtStored' = Outside(k)
    /\ UNCHANGED <<requests, blockManager, crashed>>

\* Dimension.UnloadChunk
DimUnloadChunk(k) ==
    /\ DimStep("UnloadChunk", <<0, 0, 0>>, NoBlock, "nil")
    /\ chunks' = Deleted(k)
    /\ chunkData' = [j \in DOMAIN chunkData \ {k} |-> chunkData[j]]
    /\ nbtStored' = Outside(k)
    /\ UNCHANGED <<requests, blockManager, crashed>>

\* Dimension.GetBlockAt called by a client.
DimGetBlockAt(v) ==
    LET r == GetBlockAt(v)
    IN /\ DimStep("GetBlockAt", v, r.block, IF r.panic THEN "panic" ELSE r.err)
       /\ crashed' = r.panic
       /\ chunkData' = r.data
       /\ UNCHANGED <<chunks, requests, blockManager, nbtStored>>

\* Dimension.SetBlockAt called by a client: provider.LoadChunk runs the
\* callback at once on a loaded chunk and sends a request otherwise (the
\* send blocks while the channel is full).
DimSetBlockAt(v, block) ==
    /\ DimStep("SetBlockAt", v, block, "nil")
    /\ IF GetChunk(ChunkOf(v))[2]
       THEN /\ chunkData' = [chunkData EXCEPT ![ChunkOf(v)] = Placed(@, v, block)]
            /\ nbtStored' = Recorded(v, block.nbt)
            /\ UNCHANGED requests
       ELSE /\ Len(requests) < QueueCap
            /\ requests' = Append(requests, [v |-> v, block |-> block])
            /\ UNCHANGED <<chunkData, nbtStored>>
    /\ UNCHANGED <<chunks, blockManager, crashed>>

\* Anvil.Process on a request of SetBlockAt, in a world without region
\* records: a loaded chunk gets the callback; otherwise the chunk is
\* generated and stored, and then gets the callback.
DimProcess ==
    /\ ~crashed
    /\ requests # <<>>
    /\ LET v == Head(requests).v
           k == ChunkOf(v)
           cd == IF GetChunk(k)[2] THEN chunkData[k] ELSE NewChunkData
       IN /\ chunks' = IF GetChunk(k)[2] THEN chunks
                       ELSE Stored(k, NewChunk(dsteps, k, "generated"))
          /\ chunkData' = [j \in DOMAIN chunkData \cup {k} |->
                              IF j = k THEN Placed(cd, v, Head(requests).block)
                              ELSE chunkData[j]]
          /\ nbtStored' = Recorded(v, Head(requests).block.nbt)
    /\ requests' = Tail(requests)
    /\ dlast' = [op |-> "Process", v |-> Head(requests).v, block |-> Head(requests).block,
                 err |-> "nil"]
    /\ UNCHANGED <<pc, arg, got, res, regions, disk, calls, last, rvars, lvars, svars, cvars,
                   avars, later, blockManager, dsteps, crashed>>

DimensionSpecInit ==
    /\ ProviderInit
    /\ disk = [k \in Coords |-> "absent"]
    /\ crashed = FALSE
    /\ NoRegion
    /\ LoaderInit /\ SegmentInit /\ ChunkInit /\ ExtrasInit

DimensionNext ==
    \/ \E id \in DimBlockIds : Register(id)
    \/ Deregister(7)
    \/ \E k \in DimChunks : DimSetChunk(k)
    \/ \E k \in DimChunks : DimUnloadChunk(k)
    \/ \E v \in DimPositions : DimGetBlockAt(v)
    \/ \E v \in DimPositions, block \in DimBlocks : DimSetBlockAt(v, block)
    \/ DimProcess

DimensionSpec == DimensionSpecInit /\ [][DimensionNext]_vars

\* C21: GetBlockAt for a position whose chunk is not loaded returns no block
\* and the UnloadedChunk error, and leaves the cache, the request channel
\* and the chunks as they were.
C21_UnloadedChunkReported ==
    [][(dsteps' = dsteps + 1 /\ dlast'.op = "GetBlockAt"
           /\ ~IsChunkLoaded(ChunkOf(dlast'.v))) =>
          /\ dlast'.err = "UnloadedChunk"
          /\ dlast'.block = NoBlock
          /\ ~crashed'
          /\ UNCHANGED <<chunks, requests, chunkData>>
      ]_vars

\* GetBlockAt was called for a chunk that is not loaded, while another chunk
\* was loaded and a request for the chunk was waiting in the channel.
C21_Witness ==
    /\ dlast.op = "GetBlockAt" /\ dlast.err = "UnloadedChunk"
    /\ chunks # <<>>
    /\ requests # <<>> /\ ChunkOf(requests[1].v) = ChunkOf(dlast.v)

\* C22: GetBlockAt on a loaded chunk whose block id at the position is not
\* registered returns the UnregisteredBlock error and does not panic,
\* whether or not a compound is stored at the position.
C22_UnregisteredBlockReported ==
    [][(dsteps' = dsteps + 1 /\ dlast'.op = "GetBlockAt"
           /\ IsChunkLoaded(ChunkOf(dlast'.v))
           /\ Chunk_GetBlockId(chunkData[ChunkOf(dlast'.v)].subChunks,
                               dlast'.v[1] % 16, dlast'.v[2], dlast'.v[3] % 16)
                 \notin blockManager) =>
          /\ dlast'.err = "UnregisteredBlock"
          /\ ~crashed'
      ]_vars

\* C30: GetBlockAt on a loaded chunk with a registered block id at the
\* position returns, without error, a block that carries the compound last
\* stored at the position, and a block without compound when none is stored.
C30_BlockCarriesStoredNBT ==
    [][(dsteps' = dsteps + 1 /\ dlast'.op = "GetBlockAt"
           /\ IsChunkLoaded(ChunkOf(dlast'.v))
           /\ Chunk_GetBlockId(chunkData[ChunkOf(dlast'.v)].subChunks,
                               dlast'.v[1] % 16, dlast'.v[2], dlast'.v[3] % 16)
                 \in blockManager) =>
          /\ dlast'.err = "nil"
          /\ dlast'.block.nbt = IF dlast'.v \in DOMAIN nbtStored
                                THEN nbtStored[dlast'.v] ELSE "nil"
      ]_vars

---------------------------------------------------------------------------
(* Anvil.Save and Anvil.Close (src/manager.go:220-247) over the regions of *)
(* the provider, with Region.Save and Region.Close (part_006:71-81).       *)

\* Number of Save / Close calls made on the provider.
MaxWalks == 2

\* The region indices of the coordinates the callers use.
RegionKeys == {GetChunkIndex(RegionOf(k)[1], RegionOf(k)[2]) : k \in Coords}

\* The Region objects in the table.
OpenIds == {regions[i].id : i \in DOMAIN regions}

Count(f, id) == IF id \in DOMAIN f THEN f[id] ELSE 0

Bumped(f, id) == [j \in DOMAIN f \cup {id} |-> IF j = id THEN Count(f, id) + 1 ELSE f[j]]

\* A regions.Range about to start, for Save or for Close.
NewWalk(kind, async) ==
    [kind |-> kind, async |-> async, open |-> OpenIds,
     started |-> FALSE, start |-> {}, visited |-> {}, done |-> FALSE]

\* The keys the table held when the Range of walk w started.
StartKeys(w) == IF walks[w].started THEN walks[w].start ELSE DOMAIN regions

AnvilFrame ==
    UNCHANGED <<chunks, requests, pc, arg, got, res, disk, calls, last, crashed,
                rvars, lvars, svars, cvars, dvars, later>>

\* Anvil.Save: go func() { provider.regions.Range(... Save ...) }(), and
\* the call returns.
AnvilSave ==
    /\ ~crashed
    /\ Len(walks) < MaxWalks
    /\ walks' = Append(walks, NewWalk("Save", TRUE))
    /\ alast' = [op |-> "Save", async |-> TRUE, open |-> OpenIds]
    /\ UNCHANGED <<regions, saved, closed>>
    /\ AnvilFrame

\* Anvil.Close(async): the Range runs in a goroutine and the call returns,
\* or the Range runs in the call.
AnvilClose(async) ==
    /\ ~crashed
    /\ Len(walks) < MaxWalks
    /\ walks' = Append(walks, NewWalk("Close", async))
    /\ alast' = IF async THEN [op |-> "Close", async |-> TRUE, open |-> OpenIds]
                ELSE alast
    /\ UNCHANGED <<regions, saved, closed>>
    /\ AnvilFrame

\* One call of the function given to Range, on a key the table holds and
\* the walk has not visited: region.Save() for Save; region.Close(true),
\* which is Save and File.Close, and regions.Delete(index) for Close.
WalkVisit(w, i) ==
    /\ ~crashed
    /\ w \in DOMAIN walks
    /\ ~walks[w].done
    /\ i \in DOMAIN regions \ walks[w].visited
    /\ walks' = [walks EXCEPT ![w].started = TRUE, ![w].start = StartKeys(w),
                              ![w].visited = @ \cup {i}]
    /\ saved' = Bumped(saved, regions[i].id)
    /\ IF walks[w].kind = "Close"
       THEN /\ closed' = Bumped(closed, regions[i].id)
            /\ regions' = [j \in DOMAIN regions \ {i} |-> regions[j]]
       ELSE UNCHANGED <<closed, regions>>
    /\ UNCHANGED alast
    /\ AnvilFrame

\* Range returns once it has visited every key that was in the table from
\* its start on; with it returns the call of Close(false).
WalkFinish(w) ==
    /\ ~crashed
    /\ w \in DOMAIN walks
    /\ ~walks[w].done
    /\ (StartKeys(w) \cap DOMAIN regions) \subseteq walks[w].visited
    /\ walks' = [walks EXCEPT ![w].started = TRUE, ![w].start = StartKeys(w),
                              ![w].done = TRUE]
    /\ alast' = IF walks[w].kind = "Close" /\ ~walks[w].async
                THEN [op |-> "Close", async |-> FALSE, open |-> walks[w].open]
                ELSE alast
    /\ UNCHANGED <<regions, saved, closed>>
    /\ AnvilFrame

\* The callers that load and unload chunks, the resolution pipeline, and
\* the callers of Save and Close.
AnvilNext ==
    \/ \E c \in Loads, k \in Coords : LoadChunk(c, k)
    \/ \E c \in Loads : LoadChunkSend(c)
    \/ Process
    \/ \E c \in Loads : ProcessComplete(c)
    \/ \E c \in Loads : WorkerCheck(c)
    \/ \E c \in Loads : WorkerOpen(c)
    \/ \E c \in Loads : WorkerLoad(c)
    \/ \E c \in Loads : WorkerComplete(c)
    \/ \E k \in Coords : UnloadChunk(k)
    \/ AnvilSave
    \/ \E async \in BOOLEAN : AnvilClose(async)
    \/ \E w \in 1..MaxWalks, i \in RegionKeys : WalkVisit(w, i)
    \/ \E w \in 1..MaxWalks : WalkFinish(w)

\* A provider just made by NewAnvil in a world without region files.
AnvilSpecInit ==
    /\ ProviderInit
    /\ disk = [k \in Coords |-> "absent"]
    /\ crashed = FALSE
    /\ NoRegion
    /\ LoaderInit /\ SegmentInit /\ ChunkInit /\ ExtrasInit

AnvilSpec == AnvilSpecInit /\ [][AnvilNext]_vars

\* C23: when Save returns, every region that was open at the call has been
\* saved (compacted, header rewritten), and so it is when Close(false)
\* returns; only Close(true) may return before its file work is done.
C23_SaveBlocksUntilSaved ==
    (alast.op = "Save" \/ (alast.op = "Close" /\ ~alast.async)) =>
        \A id \in alast.open : Count(saved, id) >= 1

\* A request being resolved by Process or by one of its goroutines.
Resolving(c) == pc[c] \in {"pcomplete", "check", "open", "load", "complete"}

\* C29: a region in the table stays there, the same object, over every
\* step but the one in which Close closes it; and when Close(false) returns
\* while no request is being resolved, the table is empty and every region
\* that was open at the call has been saved and closed exactly once.
C29_RegionsOwnedUntilClose ==
    [][/\ \A i \in DOMAIN regions :
             \/ i \in DOMAIN regions' /\ regions'[i] = regions[i]
             \/ Count(closed', regions[i].id) = Count(closed, regions[i].id) + 1
       /\ (alast' # alast /\ alast'.op = "Close" /\ ~alast'.async
              /\ \A c \in Loads : ~Resolving(c)) =>
             /\ regions' = <<>>
             /\ \A id \in alast'.open : Count(closed', id) = 1 /\ Count(saved', id) >= 1
      ]_vars

---------------------------------------------------------------------------
(* Claims about the region container: what a write leaves alone, and what  *)
(* compaction does with a corrupt length.                                  *)

\* The bytes of the header region of a file.
HeaderBytes(f) == ReadAt(f, 0, HeaderSize)

\* C24: a Write(x, z, ...) leaves the 8192 header bytes of the file as they
\* were, every other present slot reads the same tag and payload after the
\* write as before, and a record that needs more sectors than the slot had
\* is placed at the end of the file, the offset of the slot being set to it.
C24_WriteLeavesOthersAlone ==
    [][(writes' = writes + 1) =>
          LET x == lastWrite'.x
              z == lastWrite'.z
              idx == GetChunkLocationIndex(x, z)
          IN /\ HeaderBytes(File') = HeaderBytes(File)
             /\ \A k \in RCoords :
                   (k # <<x, z>> /\ HasChunkGenerated(k[1], k[2])) =>
                       /\ GetChunkData(k[1], k[2])' = GetChunkData(k[1], k[2])
                       /\ HasChunkGenerated(k[1], k[2])'
             /\ (Ceil(lastWrite'.data.len + 5, SectorSize) > Header.Locations[idx].SectorLength) =>
                   /\ Header'.Locations[idx].Offset = File.len
                   /\ ReadAt(File', File.len + 5, lastWrite'.data.len) = lastWrite'.data
      ]_vars

\* A slot that has an offset and whose stored length word is <= 0.
Corrupt(i) == Header.Locations[i].Offset # 0 /\ StoredLength(i) <= 0

\* The bytes the slots of S add to the rebuilt stream.
RECURSIVE RepackedSum(_)
RepackedSum(S) ==
    IF S = {} THEN 0
    ELSE LET i == CHOOSE m \in S : TRUE
         IN Repacked(i).len + RepackedSum(S \ {i})

\* C28: Compact skips the slots with offset 0; a slot whose stored length
\* is <= 0 gets offset 0, adds no bytes to the rebuilt file and is reported
\* as not generated afterwards; every other slot keeps its location and
\* adds its record to the rebuilt file.
C28_CorruptSlotUnallocated ==
    [][(compacts' = compacts + 1) =>
          /\ \A i \in DOMAIN Header.Locations :
                IF Corrupt(i)
                THEN /\ Header'.Locations[i].Offset = 0
                     /\ ~IsExistent(Header'.Locations[i])
                ELSE Header'.Locations[i] = Header.Locations[i]
          /\ \A k \in RCoords :
                Corrupt(GetChunkLocationIndex(k[1], k[2])) =>
                    /\ GetChunkData(k[1], k[2])' = <<0, Zeros(0), FALSE>>
                    /\ ~HasChunkGenerated(k[1], k[2])'
          /\ File'.len = HeaderSize
                 + RepackedSum({i \in DOMAIN Header.Locations :
                                  Header.Locations[i].Offset # 0 /\ ~Corrupt(i)})
          /\ ~crashed'
      ]_vars

\* The first Compact on the corrupt file: the slot of (1, 0), whose length
\* word was negative, has offset 0 and still its sector count, the slot of
\* (0, 0) has its offset, and the file is the header and one sector.
C28_Witness ==
    /\ lastWrite.op = "Compact" /\ compacts = 1 /\ writes = 0
    /\ Header.Locations[1] = [Offset |-> 0, SectorLength |-> 1]
    /\ Header.Locations[0].Offset = 4 * SectorSize
    /\ File.len = HeaderSize + SectorSize

---------------------------------------------------------------------------
(* Claims about the drains of the loader and about its tick.               *)

Min(a, b) == IF a < b THEN a ELSE b

\* C25: ProcessLoadQueue(perTick) on a load queue of n coordinates makes
\* min(perTick, n) LoadChunk calls on the provider, and the coordinates it
\* made them for are the ones that left the load queue, within the call.
C25_LoadDrainTakesPerTick ==
    [][(lsteps' = lsteps + 1 /\ llast'.op = "ProcessLoadQueue") =>
          /\ Cardinality(trace'[1].ks) = Min(llast'.r, Cardinality(loadChunkQueue))
          /\ loadChunkQueue' = loadChunkQueue \ trace'[1].ks
          /\ trace'[1].ks \subseteq loadChunkQueue
      ]_vars

\* C26: ProcessUnloadQueue(perTick) on an unload queue of n coordinates
\* handles min(perTick, n) of them, each of them leaves the unload queue
\* and the chunks in use, and the unload hook runs only for a coordinate
\* that was in use, i.e. once for each time it is put out of use.
C26_UnloadDrainTakesPerTick ==
    [][(lsteps' = lsteps + 1 /\ llast'.op = "ProcessUnloadQueue") =>
          /\ Cardinality(trace'[1].ks) = Min(llast'.r, Cardinality(unloadChunkQueue))
          /\ trace'[1].ks \cap unloadChunkQueue' = {}
          /\ trace'[1].ks \cap loadedChunks' = {}
          /\ trace'[1].hit \subseteq loadedChunks
      ]_vars

\* Number of Request calls is bounded by MaxLoaderSteps as every loader call.

\* What Request did, with the publisher hook run whether or not the load
\* queue holds anything.
TickEvents_PublisherAlways(l1, S, hit, l2, U, found) ==
    <<Event("Sort", {}, {}), Event("Publisher", {}, {})>>
    \o (IF l1.load # {} THEN <<Event("Load", S, hit)>> ELSE <<>>)
    \o (IF l2.unload # {} THEN <<Event("Unload", U, found)>> ELSE <<>>)

\* What Request did, in order: SortChunks; with a non-empty load queue
\* PublisherUpdateFunction and ProcessLoadQueue; with a non-empty unload
\* queue ProcessUnloadQueue.  l1 are the maps after SortChunks and l2 those
\* after the load drain.
TickEvents(l1, S, hit, l2, U, found) ==
    <<Event("Sort", {}, {})>>
    \o (IF l1.load # {} THEN <<Event("Publisher", {}, {}), Event("Load", S, hit)>> ELSE <<>>)
    \o (IF l2.unload # {} THEN <<Event("Unload", U, found)>> ELSE <<>>)

\* The entries a drain of the map Q takes, when the drain runs at all.
Drained(Q, perTick) ==
    IF Q = {} THEN {{}} ELSE Picks(Q, Handled(perTick, Cardinality(Q)))

\* Request(distance, perTick), what it does to the loader.
Requested(distance, perTick) ==
    LET l1 == SortChunks(LoaderMaps, center, distance)
    IN \E S \in Drained(l1.load, perTick) :
       \E hit \in SUBSET S :
          LET l2 == [l1 EXCEPT !.load = @ \ S, !.loaded = @ \cup hit]
          IN \E U \in Drained(l2.unload, perTick) :
             \E found \in SUBSET U :
                /\ LoaderBecomes([l2 EXCEPT !.loaded = @ \ U, !.load = @ \ U])
                /\ inflight' = Owed(S \ hit)
                /\ trace' = TickEvents(l1, S, hit, l2, U, found)
                /\ UNCHANGED center

\* Request(distance, perTick), the tick of the loader.
Request(distance, perTick) ==
    /\ LoaderStep("Request", center, distance)
    /\ Requested(distance, perTick)

\* The view distances of the ticks.
TickRadii == {0, 1}

\* One loader, the tick thread moving it and calling Request, and the
\* provider's callbacks.
TickNext ==
    \/ \E k \in Centers : Move(k)
    \/ \E r \in TickRadii, perTick \in PerTicks : Request(r, perTick)
    \/ \E k \in LoaderCoords : LoadCallback(k)

TickSpec == LoaderSpecInit /\ [][TickNext]_vars

\* The positions of the events of a kind in the trace t.
Where(t, ev) == {i \in DOMAIN t : t[i].ev = ev}

\* C27: in a Request, SortChunks runs first; the publisher hook runs once
\* if the load queue is not empty after SortChunks and not at all if it is
\* empty; it runs before the LoadChunk calls of the tick; and the unload
\* drain comes after the load drain.
C27_TickOrder ==
    [][(lsteps' = lsteps + 1 /\ llast'.op = "Request") =>
          LET t == trace'
              queued == Disc(center, llast'.r) \ loadedChunks
          IN /\ Where(t, "Sort") = {1}
             /\ Cardinality(Where(t, "Publisher")) = IF queued # {} THEN 1 ELSE 0
             /\ Where(t, "Load") # {} => queued # {}
             /\ \A i \in Where(t, "Publisher"), j \in Where(t, "Load") : i < j
             /\ \A i \in Where(t, "Load"), j \in Where(t, "Unload") : i < j
             /\ \A i \in Where(t, "Sort"), j \in Where(t, "Unload") : i < j
      ]_vars

\* A Request that ran the publisher hook, called LoadChunk on the provider
\* and then ran the unload drain on a chunk that had been in use.
C27_Witness ==
    /\ llast.op = "Request"
    /\ Len(trace) = 4
    /\ trace[3].ev = "Load" /\ trace[3].ks # {}
    /\ trace[4].ev = "Unload" /\ trace[4].ks # {}

---------------------------------------------------------------------------
(* Claims about Save: compaction followed by the rewrite of the header.    *)

\* The slots of the coordinates the clients use that hold a record: present,
\* with a positive stored length that lies within the file.
Readable(k) ==
    LET i == GetChunkLocationIndex(k[1], k[2])
    IN /\ IsExistent(Header.Locations[i])
       /\ StoredLength(i) > 0
       /\ ~ShortRead(k[1], k[2])

\* C31: for every slot that is present with a positive stored length before
\* Compact, Read after Compact returns the same payload and the same
\* compression tag as before.
C31_CompactKeepsReadable ==
    [][(compacts' = compacts + 1) =>
          \A k \in RCoords :
             Readable(k) =>
                /\ GetChunkData(k[1], k[2])'[1] = GetChunkData(k[1], k[2])[1]
                /\ GetChunkData(k[1], k[2])'[2] = GetChunkData(k[1], k[2])[2]
      ]_vars

\* a | b for two non-negative integers.
RECURSIVE BitOr(_, _)
BitOr(a, b) ==
    IF a = 0 THEN b
    ELSE IF b = 0 THEN a
    ELSE (IF a % 2 = 1 \/ b % 2 = 1 THEN 1 ELSE 0) + 2 * BitOr(a \div 2, b \div 2)

\* WriteHeader, one word of offsets: Offset >> 12 << 8 | SectorLength as an
\* int32, as the four bytes binary.Write gives it, most significant first.
LocationWord(loc) ==
    LET high == BitOr((loc.Offset \div 4096) % 16777216,
                      (loc.SectorLength \div 256) % 16777216)
    IN <<high \div 65536, (high \div 256) % 256, high % 256, loc.SectorLength % 256>>

\* WriteHeader, headerBytes: the 1024 location words and the 1024
\* timestamps.
headerBytes(h) ==
    LET used == {i \in DOMAIN h.Locations :
                    h.Locations[i].Offset # 0 \/ h.Locations[i].SectorLength # 0}
        stamped == {i \in DOMAIN h.Timestamps : h.Timestamps[i] # 0}
        byte(p) == IF p < HeaderSize \div 2
                   THEN LocationWord(h.Locations[p \div 4])[(p % 4) + 1]
                   ELSE At(BE32(h.Timestamps[(p - HeaderSize \div 2) \div 4]), p % 4)
        at == UNION {{4 * i + j : j \in 0..3} : i \in used}
              \cup UNION {{HeaderSize \div 2 + 4 * i + j : j \in 0..3} : i \in stamped}
    IN [len |-> HeaderSize, nz |-> [p \in {q \in at : byte(q) # 0} |-> byte(p)]]

\* WriteHeader, on the header h and the file f
WriteHeader(h, f) == WriteAt(f, 0, headerBytes(h))

\* A client saves the region: Region.Save, CleanGarbage and WriteHeader.
Save ==
    /\ ~crashed
    /\ compacts < MaxCompacts
    /\ compacts' = compacts + 1
    /\ Header' = CleanedHeader
    /\ File' = WriteHeader(CleanedHeader, CleanedFile)
    /\ lastWrite' = [NoWrite EXCEPT !.op = "Save"]
    /\ lastRead' = NoWrite
    /\ UNCHANGED <<others, pvars, crashed, writes, written, isNew>>

\* The region file is opened again: NewRegion on the file, LoadHeader.
Reopen ==
    LET opened == LoadHeader([File EXCEPT !.pos = 0])
    IN /\ ~crashed
       /\ Header' = opened.header
       /\ File' = opened.file
       /\ lastWrite' = [NoWrite EXCEPT !.op = "Open"]
       /\ lastRead' = NoWrite
       /\ UNCHANGED <<others, pvars, crashed, writes, written, isNew, compacts>>

\* The payloads of the clients that save: one byte, more than two sectors,
\* and the shortest payload whose record takes 256 sectors.
SavePayloads == {Payload(1, 7, 7), Payload(9000, 3, 4), Payload(255 * SectorSize - 4, 1, 2)}

\* One region container opened on a new or on an existing file, and the
\* clients writing, saving and opening it again.
SaveNext ==
    \/ \E k \in RCoords, data \in SavePayloads : Write(k[1], k[2], data, 2)
    \/ Save
    \/ Reopen

SaveSpec == RegionInit /\ [][SaveNext]_vars

\* C32: the location records and the timestamps LoadHeader reads from the
\* file Save wrote are those the region held in memory after Save.
C32_HeaderRoundTrip ==
    [][(lastWrite.op = "Save" /\ lastWrite'.op = "Open") => Header' = Header]_vars

---------------------------------------------------------------------------
(* The loader ticked for ever.                                             *)

\* The provider takes no further request for a coordinate with this many
\* requests outstanding: the caller of LoadChunk waits on the channel.
MaxInflight == 2

\* The view distance of the ticks.
LiveRadius == 0

\* One more tick of the game loop: Request(LiveRadius, perTick).
Tick(perTick) ==
    /\ \A k \in DOMAIN inflight : inflight[k] < MaxInflight
    /\ llast' = [op |-> "Tick", k |-> center, r |-> perTick, was |-> QueueOf(center)]
    /\ Requested(LiveRadius, perTick)
    /\ UNCHANGED <<lsteps, pvars, crashed, rvars, svars, cvars, extras>>

\* The loader is moved a few times and ticked for ever; the provider runs
\* the callback of every request it was given.
LiveNext ==
    \/ \E k \in Centers : Move(k)
    \/ \E perTick \in PerTicks : Tick(perTick)
    \/ \E k \in LoaderCoords : LoadCallback(k)

LiveSpec ==
    /\ LoaderSpecInit
    /\ [][LiveNext]_vars
    /\ \A k \in LoaderCoords : WF_vars(LoadCallback(k))

\* From some point on every tick has the budget perTick, and such ticks go
\* on for as long as they have something to do.
TickedWith(perTick) ==
    /\ <>[][llast'.op = "Tick" => llast'.r = perTick]_vars
    /\ WF_vars(Tick(perTick))

\* C33: when every tick has the same budget perTick >= 1 and ticks are
\* repeated (the center and the radius are fixed from some point on as
\* well), the set of chunks in use becomes the disc around the center and
\* stays it.
C33_TicksReachTheDisc ==
    \A perTick \in PerTicks :
        TickedWith(perTick) => <>[](loadedChunks = Disc(center, LiveRadius))

\* The coordinates a Request with the trace t asked the provider for and
\* did not get within the call.
Pending(t) == UNION {t[i].ks \ t[i].hit : i \in Where(t, "Load")}

\* C34: a coordinate that the last tick asked the provider for and that is
\* still being resolved is not asked for again by the next tick with the
\* same center and radius.
C34_NoSecondLoadWhilePending ==
    [][(/\ llast.op = "Request" /\ llast'.op = "Request"
        /\ lsteps' = lsteps + 1 /\ llast'.r = llast.r) =>
          \A j \in Where(trace', "Load") : Pending(trace) \cap trace'[j].ks = {}
      ]_vars

---------------------------------------------------------------------------
(* Further claims about the chunk.                                         *)

\* C35: the binary encoding holds every non-empty segment at its own index:
\* the segment count ToBinary writes, which is the number of indices it
\* encodes from 0 up, is greater than the highest index of a non-empty
\* segment.
C35_EncodingHoldsEverySegment ==
    clast.op = "ToBinary" => clast.v > TopSegment(subChunks)

---------------------------------------------------------------------------
(* One chunk shared by goroutines (Chunk.GetSubChunk, chunk.go 466-478).   *)

MaxSharedCalls == 2

\* The positions the goroutines use: two of segment 0 and one of segment 1.
SharedPositions == {<<0, 0, 0>>, <<1, 0, 0>>, <<0, 17, 0>>}

\* A step of goroutine t on the shared chunk leaves the rest alone.
SharedFrame ==
    UNCHANGED <<pvars, crashed, rvars, lvars, svars, cvars, dvars, avars, evars, scan>>

\* GetSubChunk(y), the part under the read lock, in a call of SetBlockId or
\* GetBlockId at p: the object of the map if there is one.
GetSubChunkRead(t, op, p) ==
    LET y == p[2] \div 16
    IN /\ gpc[t] = "idle"
       /\ gcalls[t] < MaxSharedCalls
       /\ gcall' = [gcall EXCEPT ![t] = [op |-> op, p |-> p, id |-> t,
                                         sub |-> IF y \in DOMAIN stored THEN stored[y] ELSE 0]]
       /\ gpc' = [gpc EXCEPT ![t] = IF y \in DOMAIN stored THEN "apply" ELSE "store"]
       /\ UNCHANGED <<segments, stored, gcalls>>
       /\ SharedFrame

\* GetSubChunk(y), the part under the write lock: a new SubChunk is put
\* into the map and returned; the map is not looked at again.
GetSubChunkStore(t) ==
    LET y == gcall[t].p[2] \div 16
        new == Len(segments) + 1
    IN /\ gpc[t] = "store"
       /\ segments' = Append(segments, NewSubChunk)
       /\ stored' = [i \in DOMAIN stored \cup {y} |-> IF i = y THEN new ELSE stored[i]]
       /\ gcall' = [gcall EXCEPT ![t].sub = new]
       /\ gpc' = [gpc EXCEPT ![t] = "apply"]
       /\ UNCHANGED gcalls
       /\ SharedFrame

\* The call on the SubChunk that GetSubChunk returned: SetBlockId writes
\* into that object, GetBlockId reads it.
SharedApply(t) ==
    LET c == gcall[t]
    IN /\ gpc[t] = "apply"
       /\ segments' = IF c.op = "SetBlockId"
                      THEN [segments EXCEPT ![c.sub] =
                               SubChunk_SetBlockId(@, c.p[1], c.p[2] % 16, c.p[3], c.id)]
                      ELSE segments
       /\ gpc' = [gpc EXCEPT ![t] = "idle"]
       /\ gcalls' = [gcalls EXCEPT ![t] = @ + 1]
       /\ UNCHANGED <<stored, gcall>>
       /\ SharedFrame

SharedChunkNext ==
    \/ \E t \in Goroutines, op \in {"SetBlockId", "GetBlockId"}, p \in SharedPositions :
          GetSubChunkRead(t, op, p)
    \/ \E t \in Goroutines : GetSubChunkStore(t)
    \/ \E t \in Goroutines : SharedApply(t)

SharedChunkSpec == ChunkSpecInit /\ [][SharedChunkNext]_vars

\* C36: the SubChunk a GetSubChunk(y) call returned is the one the chunk
\* holds at y, so a write through it is a write to the chunk.
C36_OneSegmentInstance ==
    \A t \in Goroutines :
        gpc[t] = "apply" => gcall[t].sub = stored[gcall[t].p[2] \div 16]

---------------------------------------------------------------------------
(* Further claim about the regions of the provider.                        *)

\* C37: the file of a region is opened at most once: a goroutine opens a
\* region and stores it only while the table has no Region for it, so no
\* Region of the table is replaced by another.
C37_RegionOpenedOnce ==
    [][\A c \in Loads :
          (pc[c] = "open" /\ pc'[c] = "load") =>
             /\ ~IsRegionLoaded(RegionOf(arg[c]))
             /\ \A i \in DOMAIN regions : regions'[i] = regions[i]
      ]_vars

---------------------------------------------------------------------------
(* The entities of a dimension (src/unnamed/part_003, lines 126-158).      *)

MaxRemoves == 1

\* A step on the entities leaves the rest alone.
EntityFrame ==
    UNCHANGED <<pvars, crashed, rvars, lvars, svars, cvars, dvars, avars, gvars, scan>>

\* The map m with v stored under the key id.
Put(m, id, v) == [i \in DOMAIN m \cup {id} |-> IF i = id THEN v ELSE m[i]]

\* The map m without the key id.
Without(m, id) == [i \in DOMAIN m \ {id} |-> m[i]]

\* AddEntity(entity, position): LoadChunk with the callback; the provider
\* has the chunk and will run the callback, on the goroutine of the caller,
\* of Process or of a worker.
AddEntity(e, p) ==
    /\ epc[e] = "idle"
    /\ epc' = [epc EXCEPT ![e] = "called"]
    /\ eself' = [eself EXCEPT ![e].pos = p]
    /\ UNCHANGED <<EntityRuntimeId, entities, chunkEntities, removes, elast>>
    /\ EntityFrame

\* The callback, EntityRuntimeId++: the variable is read ...
IncrementRead(e) ==
    /\ epc[e] = "called"
    /\ epc' = [epc EXCEPT ![e] = "read"]
    /\ eself' = [eself EXCEPT ![e].read = EntityRuntimeId]
    /\ UNCHANGED <<EntityRuntimeId, entities, chunkEntities, removes, elast>>
    /\ EntityFrame

\* ... and the value read plus one is written to it; nothing keeps another
\* goroutine from the variable in between.
IncrementWrite(e) ==
    /\ epc[e] = "read"
    /\ epc' = [epc EXCEPT ![e] = "incremented"]
    /\ EntityRuntimeId' = eself[e].read + 1
    /\ UNCHANGED <<eself, entities, chunkEntities, removes, elast>>
    /\ EntityFrame

\* The callback: entity.SetRuntimeId(EntityRuntimeId)
SetRuntimeId(e) ==
    /\ epc[e] = "incremented"
    /\ epc' = [epc EXCEPT ![e] = "numbered"]
    /\ eself' = [eself EXCEPT ![e].rid = EntityRuntimeId]
    /\ UNCHANGED <<EntityRuntimeId, entities, chunkEntities, removes, elast>>
    /\ EntityFrame

\* The callback: chunk.AddEntity(entity), which stores the entity under
\* entity.GetRuntimeId().
ChunkAddEntity(e) ==
    /\ epc[e] = "numbered"
    /\ epc' = [epc EXCEPT ![e] = "inchunk"]
    /\ chunkEntities' = [chunkEntities EXCEPT ![ChunkAt(eself[e].pos)] = Put(@, eself[e].rid, e)]
    /\ UNCHANGED <<EntityRuntimeId, entities, eself, removes, elast>>
    /\ EntityFrame

\* The callback: dimension.entities[EntityRuntimeId] = entity
StoreEntity(e) ==
    /\ epc[e] = "inchunk"
    /\ epc' = [epc EXCEPT ![e] = "added"]
    /\ entities' = Put(entities, EntityRuntimeId, e)
    /\ UNCHANGED <<EntityRuntimeId, chunkEntities, eself, removes, elast>>
    /\ EntityFrame

\* RemoveEntity(runtimeId): the chunk is looked up at the floored position
\* of the entity, int32(math.Floor(X)) and int32(math.Floor(Z)).
RemoveEntity(runtimeId) ==
    LET e == entities[runtimeId]
        k == <<eself[e].pos[1], eself[e].pos[2]>>
    IN /\ removes < MaxRemoves
       /\ removes' = removes + 1
       /\ IF runtimeId \in DOMAIN entities
          THEN /\ chunkEntities' = IF k \in DOMAIN chunkEntities
                                   THEN [chunkEntities EXCEPT ![k] = Without(@, runtimeId)]
                                   ELSE chunkEntities
               /\ entities' = Without(entities, runtimeId)
               /\ elast' = [op |-> "RemoveEntity", id |-> runtimeId, e |-> e,
                            added |-> epc[e] = "added"]
          ELSE /\ UNCHANGED <<chunkEntities, entities>>
               /\ elast' = [op |-> "RemoveEntity", id |-> runtimeId, e |-> 0, added |-> FALSE]
       /\ UNCHANGED <<EntityRuntimeId, epc, eself>>
       /\ EntityFrame

EntityNext ==
    \/ \E e \in Entities, p \in EntityPositions : AddEntity(e, p)
    \/ \E e \in Entities : IncrementRead(e)
    \/ \E e \in Entities : IncrementWrite(e)
    \/ \E e \in Entities : SetRuntimeId(e)
    \/ \E e \in Entities : ChunkAddEntity(e)
    \/ \E e \in Entities : StoreEntity(e)
    \/ \E runtimeId \in 1..NumEntities : RemoveEntity(runtimeId)

EntitySpec == ChunkSpecInit /\ [][EntityNext]_vars

\* C38: the entities that have their runtime id have different ids, and the
\* dimension holds each entity under its own runtime id.
C38_RuntimeIdsDistinct ==
    /\ \A e, f \in Entities :
          (e # f /\ epc[e] \in {"numbered", "inchunk", "added"}
                 /\ epc[f] \in {"numbered", "inchunk", "added"})
             => eself[e].rid # eself[f].rid
    /\ \A id \in DOMAIN entities : eself[entities[id]].rid = id

\* C39: after RemoveEntity(runtimeId) for an entity that AddEntity had
\* stored, under that id, in the dimension and in the chunk of its position,
\* the entity is neither in the dimension nor in that chunk.
C39_RemovedFromChunk ==
    [][(/\ removes' = removes + 1
        /\ elast'.added
        /\ eself[elast'.e].rid = elast'.id
        /\ elast'.id \in DOMAIN chunkEntities[ChunkAt(eself[elast'.e].pos)]
        /\ chunkEntities[ChunkAt(eself[elast'.e].pos)][elast'.id] = elast'.e) =>
          /\ elast'.id \notin DOMAIN entities'
          /\ \A i \in DOMAIN chunkEntities'[ChunkAt(eself[elast'.e].pos)] :
                chunkEntities'[ChunkAt(eself[elast'.e].pos)][i] # elast'.e
      ]_vars

---------------------------------------------------------------------------
(* The downward loops over the segment indices, in both revisions of       *)
(* chunk.go: GetHighestSubChunk and PruneEmptySubChunks of the first       *)
(* (lines 200-241, y a byte), GetHighestSubChunkIndex and                  *)
(* PruneEmptySubChunks of the second (lines 512-563, y an int).            *)

FirstRevision == {"GetHighestSubChunk", "PruneEmptySubChunks (byte)"}
SecondRevision == {"GetHighestSubChunkIndex", "PruneEmptySubChunks (int)"}
Pruning == {"PruneEmptySubChunks (byte)", "PruneEmptySubChunks (int)"}

\* y-- for the loop variable of the revision: a byte wraps from 0 to 255.
Decremented(op, y) == IF op \in FirstRevision THEN (y - 1) % 256 ELSE y - 1

\* The loops on a chunk no other call is working on.
ScanFrame ==
    UNCHANGED <<pvars, crashed, rvars, lvars, svars, HeightMap, csteps, clast,
                dvars, avars, gvars, evars>>

\* A call of one of the four functions: for y := 15.
StartScan(op) ==
    /\ ~scan.running
    /\ scan' = [op |-> op, y |-> 15, running |-> TRUE]
    /\ UNCHANGED subChunks
    /\ ScanFrame

\* One iteration of the loop, from the test y >= 0 to y--, or the return.
ScanStep(op) ==
    LET y == scan.y
        continue == scan' = [scan EXCEPT !.y = Decremented(op, y)]
        return == scan' = [scan EXCEPT !.running = FALSE]
    IN /\ scan.running /\ scan.op = op
       /\ IF y < 0
          THEN return /\ UNCHANGED subChunks
          ELSE IF y \notin DOMAIN subChunks
          THEN continue /\ UNCHANGED subChunks
          ELSE IF op \in Pruning
          THEN IF ~IsAllAir(subChunks[y])
               THEN return /\ UNCHANGED subChunks
               ELSE continue /\ subChunks' = [i \in DOMAIN subChunks \ {y} |-> subChunks[i]]
          ELSE IF IsAllAir(subChunks[y])
               THEN continue /\ UNCHANGED subChunks
               ELSE return /\ UNCHANGED subChunks
       /\ ScanFrame

\* The clients write and read blocks while no loop is running.
BetweenScansSetBlockId(p, id) == ~scan.running /\ ChunkSetBlockId(p, id)
BetweenScansGetBlockId(p) == ~scan.running /\ ChunkGetBlockId(p)

\* One chunk, its clients writing and reading blocks, and the loops.
ScanNext ==
    \/ \E p \in ChunkPositions, id \in BlockIdValues : BetweenScansSetBlockId(p, id)
    \/ \E p \in ChunkPositions : BetweenScansGetBlockId(p)
    \/ \E op \in FirstRevision \cup SecondRevision : StartScan(op)
    \/ \E op \in FirstRevision \cup SecondRevision : ScanStep(op)

ScanSpec ==
    /\ ChunkSpecInit
    /\ [][ScanNext]_vars
    /\ WF_vars(\E op \in FirstRevision \cup SecondRevision : ScanStep(op))

\* C40: every call of GetHighestSubChunk, GetHighestSubChunkIndex and
\* PruneEmptySubChunks, of either revision, returns.
C40_ScansTerminate == scan.running ~> ~scan.running

====
